---- MODULE Spec2Model ----
(***************************************************************************)
(* Model of the atlas crawler: the URL utilities (src/utils/url.ts), the   *)
(* seed resolution and the request/failure handlers of crawl()             *)
(* (src/services/crawler.ts), run by a PuppeteerCrawler request queue and  *)
(* worker pool.                                                            *)
(*                                                                         *)
(* Strings are sequences of one-character strings, so that the string      *)
(* operations of the code (endsWith, slice, split, toLowerCase) are        *)
(* modelled by what they do.  A URL string is the record of its parts as   *)
(* written; ParseUrl is the WHATWG parser `new URL(s)` as far as the code  *)
(* depends on it (host lowercased, default port dropped, empty path read   *)
(* as "/"), and a record in parsed form stands for its serialisation.      *)
(***************************************************************************)
EXTENDS Integers, Sequences, FiniteSets, TLC

VARIABLES
  opts,         \* the resolved options of crawl(), plus what the environment returns
  seedUrls,     \* the seed list handed to crawler.run
  seedUrlSet,   \* normalized forms of the explicit seed paths
  reqs,         \* the crawler's request queue, in enqueue order
  pages,        \* CrawledPage[]
  state,        \* CrawlState: visited, failed, redirects, skipped
  seenPatterns, \* Set<string> of dynamic URL patterns
  assetMap,     \* Map<string, ManifestAsset>, in insertion order
  handled,      \* the crawler's handledRequestsCount
  phase,        \* "run" while crawler.run is pending, "done" once crawl() returned
  faults,       \* number of errors the environment has raised so far
  input,        \* argument of the utility function under test
  output        \* results of the utility function under test, in call order

crawlVars == <<opts, seedUrls, seedUrlSet, reqs, pages, state, seenPatterns,
               assetMap, handled, phase, faults>>
fnVars == <<input, output>>
vars == <<opts, seedUrls, seedUrlSet, reqs, pages, state, seenPatterns,
          assetMap, handled, phase, faults, input, output>>

\* ------------------------------------------------------------------------
\* Strings
\* ------------------------------------------------------------------------

\* String.prototype.toLowerCase on one character (the letters the model uses)
LowerChar(c) ==
  CASE c = "A" -> "a"
    [] c = "B" -> "b"
    [] c = "P" -> "p"
    [] c = "X" -> "x"
    [] OTHER -> c

ToLower(s) == [i \in 1..Len(s) |-> LowerChar(s[i])]

EndsWith(s, t) ==
  /\ Len(t) <= Len(s)
  /\ SubSeq(s, Len(s) - Len(t) + 1, Len(s)) = t

StartsWith(s, t) ==
  /\ Len(t) <= Len(s)
  /\ SubSeq(s, 1, Len(t)) = t

\* s.slice(0, -1)
DropLast(s) == SubSeq(s, 1, Len(s) - 1)

\* s.includes(t)
Includes(s, t) ==
  \E i \in 1..(Len(s) + 1) :
    /\ i + Len(t) - 1 <= Len(s)
    /\ SubSeq(s, i, i + Len(t) - 1) = t

Slash == <<"/">>

\* ------------------------------------------------------------------------
\* URL strings
\* ------------------------------------------------------------------------

\* the string "https://x.co/a?q#h" is
\*   [valid |-> TRUE, scheme |-> "https", host |-> <<"x",".","c","o">>,
\*    port |-> "", path |-> <<"/","a">>, search |-> <<"?","q">>,
\*    hash |-> <<"#","h">>];
\* a string `new URL` rejects has valid = FALSE and its text in path.
MkUrl(scheme, host, port, path, search, hash) ==
  [valid |-> TRUE, scheme |-> scheme, host |-> host, port |-> port,
   path |-> path, search |-> search, hash |-> hash]

BadUrl(text) ==
  [valid |-> FALSE, scheme |-> "", host |-> <<>>, port |-> "",
   path |-> text, search |-> <<>>, hash |-> <<>>]

DefaultPort(scheme) == IF scheme = "http" THEN "80" ELSE "443"

\* new URL(s): the parsed URL object (s.valid assumed)
ParseUrl(s) ==
  [s EXCEPT !.host = ToLower(s.host),
            !.port = IF s.port = DefaultPort(s.scheme) THEN "" ELSE s.port,
            !.path = IF s.path = <<>> THEN Slash ELSE s.path]

\* normalizeUrl(url), src/utils/url.ts
normalizeUrl(url) ==
  IF ~url.valid THEN url
  ELSE LET parsed == ParseUrl(url)
           port   == IF \/ (parsed.scheme = "http" /\ parsed.port = "80")
                        \/ (parsed.scheme = "https" /\ parsed.port = "443")
                     THEN "" ELSE parsed.port
           path   == IF EndsWith(parsed.path, Slash) /\ parsed.path # Slash
                     THEN DropLast(parsed.path) ELSE parsed.path
       IN  [parsed EXCEPT !.host = ToLower(parsed.host), !.port = port,
                          !.path = path, !.search = <<>>, !.hash = <<>>]

\* ------------------------------------------------------------------------
\* Dynamic URL patterns
\* ------------------------------------------------------------------------

\* s.split(sep), sep one character: the pieces, empty ones included
RECURSIVE SplitOn(_, _)
SplitOn(s, sep) ==
  IF \A i \in 1..Len(s) : s[i] # sep THEN <<s>>
  ELSE LET k == CHOOSE i \in 1..Len(s) :
                  s[i] = sep /\ \A j \in 1..(i - 1) : s[j] # sep
       IN  <<SubSeq(s, 1, k - 1)>> \o SplitOn(SubSeq(s, k + 1, Len(s)), sep)

\* xs.filter((s) => s.length > 0)
RECURSIVE NonEmpty(_)
NonEmpty(xs) ==
  IF xs = <<>> THEN <<>>
  ELSE IF Head(xs) = <<>> THEN NonEmpty(Tail(xs))
       ELSE <<Head(xs)>> \o NonEmpty(Tail(xs))

\* parsed.pathname.split('/').filter((s) => s.length > 0)
Segments(path) == NonEmpty(SplitOn(path, "/"))

Digits == {"0", "1", "2", "3", "4", "5", "6", "7", "8", "9"}
HexDigits == Digits \cup {"a", "b", "c", "d", "e", "f", "A", "B", "C", "D", "E", "F"}

\* /^\d+$/
numericRegex(seg) == Len(seg) >= 1 /\ \A i \in 1..Len(seg) : seg[i] \in Digits

\* /^[0-9a-f]{24}$/i
objectIdRegex(seg) == Len(seg) = 24 /\ \A i \in 1..Len(seg) : seg[i] \in HexDigits

\* /^[0-9a-f]{8}-[0-9a-f]{4}-[0-9a-f]{4}-[0-9a-f]{4}-[0-9a-f]{12}$/i
uuidRegex(seg) ==
  /\ Len(seg) = 36
  /\ \A i \in 1..Len(seg) :
       IF i \in {9, 14, 19, 24} THEN seg[i] = "-" ELSE seg[i] \in HexDigits

TagUuid == <<":", "u", "u", "i", "d">>
TagObjectId == <<":", "o", "b", "j", "e", "c", "t", "I", "d">>
TagId == <<":", "i", "d">>

\* the mutant of PatternSegment: the numeric shape is tested first
PatternSegment_NumericFirst(seg) ==
  IF numericRegex(seg) THEN TagId
  ELSE IF uuidRegex(seg) THEN TagUuid
  ELSE IF objectIdRegex(seg) THEN TagObjectId
  ELSE seg

\* the callback of segments.map in extractUrlPattern
PatternSegment(seg) ==
  IF uuidRegex(seg) THEN TagUuid
  ELSE IF objectIdRegex(seg) THEN TagObjectId
  ELSE IF numericRegex(seg) THEN TagId
  ELSE seg

\* xs.join('/')
RECURSIVE JoinSlash(_)
JoinSlash(xs) ==
  IF xs = <<>> THEN <<>>
  ELSE IF Len(xs) = 1 THEN xs[1]
  ELSE xs[1] \o Slash \o JoinSlash(Tail(xs))

\* extractUrlPattern(url): the pattern string; an unparseable url is returned
\* as it is (its text)
extractUrlPattern(url) ==
  IF ~url.valid THEN url.path
  ELSE LET segments == Segments(ParseUrl(url).path)
       IN  Slash \o JoinSlash([i \in 1..Len(segments) |-> PatternSegment(segments[i])])

\* the [key, value] entries of new URLSearchParams(parsed.search)
SearchParams(search) ==
  LET body  == IF StartsWith(search, <<"?">>) THEN Tail(search) ELSE search
      pairs == NonEmpty(SplitOn(body, "&"))
      kv(p) == LET parts == SplitOn(p, "=")
               IN  [key |-> parts[1],
                    value |-> IF Len(parts) = 1 THEN <<>>
                              ELSE SubSeq(p, Len(parts[1]) + 2, Len(p))]
  IN  [i \in 1..Len(pairs) |-> kv(pairs[i])]

\* isDynamicUrl(url): UrlAnalysis; pattern is <<>> where the code leaves it out
isDynamicUrl(url) ==
  IF ~url.valid THEN [isDynamic |-> FALSE, pattern |-> <<>>, dynamicSegments |-> <<>>]
  ELSE LET parsed   == ParseUrl(url)
           segments == Segments(parsed.path)
           isDynSeg(seg) == uuidRegex(seg) \/ objectIdRegex(seg) \/ numericRegex(seg)
           dynSegs  == SelectSeq(segments, isDynSeg)
           params   == SearchParams(parsed.search)
           isDynPar(p) == Includes(ToLower(p.key), <<"i", "d">>) /\ numericRegex(p.value)
           dynPars  == SelectSeq(params, isDynPar)
           dynamicSegments ==
             dynSegs \o [i \in 1..Len(dynPars) |->
                          dynPars[i].key \o <<"=">> \o dynPars[i].value]
       IN  IF Len(dynamicSegments) = 0
           THEN [isDynamic |-> FALSE, pattern |-> <<>>, dynamicSegments |-> <<>>]
           ELSE [isDynamic |-> TRUE, pattern |-> extractUrlPattern(url),
                 dynamicSegments |-> dynamicSegments]

\* ------------------------------------------------------------------------
\* Exclude patterns
\* ------------------------------------------------------------------------

SchemeChars(scheme) ==
  IF scheme = "http" THEN <<"h", "t", "t", "p">> ELSE <<"h", "t", "t", "p", "s">>

PortChars(port) ==
  CASE port = "" -> <<>>
    [] port = "80" -> <<":", "8", "0">>
    [] port = "443" -> <<":", "4", "4", "3">>
    [] OTHER -> <<":", "8", "0", "8", "0">>

\* the characters of a URL string
UrlString(url) ==
  IF ~url.valid THEN url.path
  ELSE SchemeChars(url.scheme) \o <<":", "/", "/">> \o url.host \o PortChars(url.port)
         \o url.path \o url.search \o url.hash

\* new RegExp(parts.join('.*')).test(s), every part a literal
RECURSIVE RegexTest(_, _)
RegexTest(parts, s) ==
  IF parts = <<>> THEN TRUE
  ELSE \E i \in 1..(Len(s) + 1) :
         /\ i + Len(parts[1]) - 1 <= Len(s)
         /\ SubSeq(s, i, i + Len(parts[1]) - 1) = parts[1]
         /\ RegexTest(Tail(parts), SubSeq(s, i + Len(parts[1]), Len(s)))

\* the mutant of shouldExcludeUrl: the string is matched without being parsed
shouldExcludeUrl_NoParse(url, patterns) ==
  \E i \in 1..Len(patterns) : Includes(ToLower(UrlString(url)), ToLower(patterns[i]))

\* shouldExcludeUrl(url, patterns), src/utils/url.ts
shouldExcludeUrl(url, patterns) ==
  IF ~url.valid THEN FALSE
  ELSE LET pathname == ToLower(ParseUrl(url).path)
           fullUrl  == ToLower(UrlString(url))
           hit(pattern) ==
             LET patternLower == ToLower(pattern)
             IN  IF Includes(patternLower, <<"*">>)
                 THEN \/ RegexTest(SplitOn(patternLower, "*"), pathname)
                      \/ RegexTest(SplitOn(patternLower, "*"), fullUrl)
                 ELSE \/ Includes(pathname, patternLower)
                      \/ Includes(fullUrl, patternLower)
       IN  \E i \in 1..Len(patterns) : hit(patterns[i])

\* isExcluded(url, patterns), src/services/crawler.ts
isExcluded(url, patterns) == shouldExcludeUrl(url, patterns)

\* filterUrls(urls, excludePatterns)
filterUrls(urls, excludePatterns) ==
  LET keep(u) == ~isExcluded(u, excludePatterns) IN SelectSeq(urls, keep)

\* pattern.replace(/\/?\*+$/, '')
RECURSIVE StripStars(_)
StripStars(p) == IF EndsWith(p, <<"*">>) THEN StripStars(DropLast(p)) ELSE p

StripWildcard(p) ==
  IF ~EndsWith(p, <<"*">>) THEN p
  ELSE LET rest == StripStars(p)
       IN  IF EndsWith(rest, Slash) THEN DropLast(rest) ELSE rest

\* the mutant of ParentPath: the slash before the wildcard is kept
ParentPath_KeepSlash(p) ==
  LET parentPath == StripStars(p)
  IN  IF StartsWith(parentPath, Slash) THEN parentPath ELSE Slash \o parentPath

\* the parent path of a wildcard pattern, with its leading slash
ParentPath(p) ==
  LET parentPath == StripWildcard(p)
  IN  IF StartsWith(parentPath, Slash) THEN parentPath ELSE Slash \o parentPath

\* the loop over the patterns in shouldExcludeHierarchically
RECURSIVE HierLoop(_, _)
HierLoop(pathname, patterns) ==
  IF patterns = <<>> THEN FALSE
  ELSE LET patternLower == ToLower(Head(patterns))
           parentPath   == ParentPath(patternLower)
       IN  IF ~Includes(patternLower, <<"*">>)
           THEN IF pathname = patternLower \/ pathname = patternLower \o Slash
                THEN TRUE
                ELSE HierLoop(pathname, Tail(patterns))
           ELSE IF pathname = parentPath \/ pathname = parentPath \o Slash
                THEN FALSE
                ELSE IF parentPath = Slash
                     THEN IF pathname # Slash THEN TRUE
                          ELSE HierLoop(pathname, Tail(patterns))
                     ELSE IF StartsWith(pathname, parentPath \o Slash) THEN TRUE
                          ELSE HierLoop(pathname, Tail(patterns))

\* shouldExcludeHierarchically(url, patterns), src/utils/url.ts
shouldExcludeHierarchically(url, patterns) ==
  IF ~url.valid THEN FALSE
  ELSE LET lower    == ToLower(ParseUrl(url).path)
           pathname == IF EndsWith(lower, Slash) /\ lower # Slash
                       THEN DropLast(lower) ELSE lower
       IN  HierLoop(pathname, patterns)

\* extractParentPaths(patterns), src/utils/url.ts
RECURSIVE extractParentPaths(_)
extractParentPaths(patterns) ==
  IF patterns = <<>> THEN <<>>
  ELSE LET pattern == Head(patterns)
           rest    == extractParentPaths(Tail(patterns))
       IN  IF ~Includes(pattern, <<"*">>) THEN rest
           ELSE IF ParentPath(pattern) = Slash THEN rest
           ELSE <<ParentPath(pattern)>> \o rest

\* ------------------------------------------------------------------------
\* Seed resolution (crawl, before the crawler is built)
\* ------------------------------------------------------------------------

\* host.replace(/^www\./, '')
StripWww(host) ==
  IF StartsWith(host, <<"w", "w", "w", ".">>) THEN SubSeq(host, 5, Len(host)) ELSE host

\* isSameDomain(url, baseUrl)
isSameDomain(url, baseUrl) ==
  IF ~url.valid THEN FALSE
  ELSE LET baseHost == StripWww(baseUrl.host)
           urlHost  == StripWww(ParseUrl(url).host)
       IN  urlHost = baseHost \/ EndsWith(urlHost, <<".">> \o baseHost)

\* new URL(ref, baseUrl).toString() for a reference that starts with "/":
\* the origin of baseUrl, then the path and the query of the reference
ResolveUrl(ref, baseUrl) ==
  LET parts == SplitOn(ref, "?")
      path  == parts[1]
      query == SubSeq(ref, Len(path) + 1, Len(ref))
  IN  MkUrl(baseUrl.scheme, baseUrl.host, baseUrl.port, path,
            IF query = <<"?">> THEN <<>> ELSE query, <<>>)

\* seedUrls.some((u) => normalizeUrl(u) === normalized)
HasNormalized(urls, normalized) ==
  \E i \in 1..Len(urls) : normalizeUrl(urls[i]) = normalized

\* the mutant of SitemapSeeds: without a usable sitemap result no seed is left
SitemapSeeds_NoFallback(o) ==
  IF o.useSitemap THEN o.sitemapResult.urls ELSE <<o.url>>

\* seedUrls after the sitemap block; sitemapResult.ok = FALSE is the null
\* of a rejected parseSitemap
SitemapSeeds(o) ==
  LET baseUrl == ParseUrl(o.url)
      sm      == o.sitemapResult
      sameDomain == LET same(u) == isSameDomain(u, baseUrl) IN SelectSeq(sm.urls, same)
      filtered == filterUrls(IF Len(sameDomain) > 0 THEN sameDomain ELSE <<o.url>>,
                             o.excludePatterns)
  IN  IF o.useSitemap /\ sm.ok /\ Len(sm.urls) > 0
      THEN SubSeq(filtered, 1, IF Len(filtered) < o.maxPages THEN Len(filtered)
                               ELSE o.maxPages)
      ELSE <<o.url>>

\* the loop that appends the parent paths of the hierarchical excludes
RECURSIVE AddParents(_, _)
AddParents(seeds, parentUrls) ==
  IF parentUrls = <<>> THEN seeds
  ELSE LET parentUrl == Head(parentUrls)
       IN  AddParents(IF HasNormalized(seeds, normalizeUrl(parentUrl)) THEN seeds
                      ELSE Append(seeds, parentUrl),
                      Tail(parentUrls))

ParentSeeds(o, seeds) ==
  LET baseUrl     == ParseUrl(o.url)
      parentPaths == extractParentPaths(o.hierarchicalExclude)
      parentUrls  == [i \in 1..Len(parentPaths) |-> ResolveUrl(parentPaths[i], baseUrl)]
  IN  AddParents(seeds, parentUrls)

\* seedPathUrls: the seed paths whose URL is not among the seeds yet
SeedPathUrls(o, seeds) ==
  LET baseUrl == ParseUrl(o.url)
      urls    == [i \in 1..Len(o.seedPaths) |-> ResolveUrl(o.seedPaths[i], baseUrl)]
      fresh(u) == ~HasNormalized(seeds, normalizeUrl(u))
  IN  SelectSeq(urls, fresh)

\* seedUrlSet: normalized URL of every seed path
SeedUrlSet(o) ==
  {normalizeUrl(ResolveUrl(o.seedPaths[i], ParseUrl(o.url))) : i \in 1..Len(o.seedPaths)}

\* seedUrls as handed to crawler.run
ResolveSeeds(o) ==
  LET withParents == ParentSeeds(o, SitemapSeeds(o))
  IN  SeedPathUrls(o, withParents) \o withParents

\* ------------------------------------------------------------------------
\* The crawled site (the environment of crawl)
\* ------------------------------------------------------------------------

HostLower == <<"x", ".", "c", "o">>
HostMixed == <<"X", ".", "c", "o">>
HostOther == <<"y", ".", "c", "o">>

\* https://x.co<path><search>
Site(path, search) == MkUrl("https", HostLower, "", path, search, <<>>)

PathA  == <<"/", "a">>
PathB  == <<"/", "b">>
PathC  == <<"/", "c">>
PathP1 == <<"/", "p", "/", "1">>
PathP2 == <<"/", "p", "/", "2">>
QueryS == <<"?", "s", "=", "1">>
QueryT == <<"?", "s", "=", "2">>

\* page.url() after the navigation to url: /b answers with a redirect to /a,
\* every other page loads under its own (serialised) address
LoadedUrl(url) ==
  LET parsed == ParseUrl(url)
  IN  IF normalizeUrl(parsed).path = PathB THEN Site(PathA, <<>>) ELSE parsed

Link(url, isInternal) == [url |-> url, isInternal |-> isInternal]

\* extractLinks(page, baseUrl) on the page loaded at url
SiteLinks(url) ==
  LET path == normalizeUrl(url).path
  IN  CASE path = Slash ->
             <<Link(Site(PathA \o Slash, <<>>), TRUE), Link(Site(PathP1, <<>>), TRUE),
               Link(Site(PathP2, <<>>), TRUE),
               Link(MkUrl("https", HostOther, "", Slash, <<>>, <<>>), FALSE)>>
        [] path = PathA ->
             <<Link(Site(PathP2, QueryS), TRUE), Link(Site(PathB, <<>>), TRUE),
               Link(Site(PathC, <<>>), TRUE)>>
        [] path = PathP1 -> <<Link(Site(PathC, <<>>), TRUE)>>
        [] path = PathC -> <<Link(Site(Slash, <<>>), TRUE), Link(Site(PathA, QueryS), TRUE)>>
        [] OTHER -> <<>>

Asset(name) == [url |-> name, type |-> "image"]

\* the pages whose navigation or extraction can fail
SiteFlaky(url) == normalizeUrl(url).path \in {PathA, PathB}

\* extractAssets(page, baseUrl) on the page loaded at url
SiteAssets(url) ==
  LET path == normalizeUrl(url).path
  IN  CASE path = Slash -> <<Asset("logo"), Asset("hero")>>
        [] path = PathA -> <<Asset("logo")>>
        [] path = PathP1 -> <<Asset("hero"), Asset("logo")>>
        [] OTHER -> <<>>

\* ------------------------------------------------------------------------
\* Idle values of the variables a specification does not use
\* ------------------------------------------------------------------------

NoUrl == BadUrl(<<>>)

EmptyState == [visited |-> <<>>, failed |-> <<>>, redirects |-> <<>>, skipped |-> <<>>]

CrawlIdle ==
  /\ opts = [url |-> NoUrl]
  /\ seedUrls = <<>>
  /\ seedUrlSet = {}
  /\ reqs = <<>>
  /\ pages = <<>>
  /\ state = EmptyState
  /\ seenPatterns = {}
  /\ assetMap = <<>>
  /\ handled = 0
  /\ phase = "idle"
  /\ faults = 0

FnIdle ==
  /\ input = NoUrl
  /\ output = <<>>

\* ------------------------------------------------------------------------
\* crawl(): configurations
\* ------------------------------------------------------------------------

\* bounds of the configurations and of the environment's errors
MaxPagesBound == 2
MaxDepthBound == 1
MaxConcurrency == 2
MaxFaults == 4

\* maxRequestRetries of the crawler (not set by crawl(): the library default)
MaxRequestRetries == 3

NullSitemap == [ok |-> FALSE, urls |-> <<>>]

\* what is configured besides the three limits: nothing, a sitemap, an
\* explicit seed path, exclude patterns, or a seed path that redirects; the
\* hierarchical excludes are an exact path, a parent's children, and /*
Features ==
  {[sm |-> NullSitemap, ex |-> <<>>, he |-> <<>>, sp |-> <<>>],
   [sm |-> [ok |-> TRUE,
            urls |-> <<Site(PathP1, <<>>), Site(PathA, QueryS), Site(PathA, QueryT)>>],
    ex |-> <<>>, he |-> <<>>, sp |-> <<>>],
   [sm |-> NullSitemap, ex |-> <<>>, he |-> <<PathA>>, sp |-> <<PathA \o Slash \o QueryS>>],
   [sm |-> NullSitemap, ex |-> <<PathC>>, he |-> <<<<"/", "p", "/", "*">>>>, sp |-> <<>>],
   [sm |-> NullSitemap, ex |-> <<PathA, <<"/", "p">>, PathC>>, he |-> <<<<"/", "*">>>>,
    sp |-> <<PathB>>]}

CrawlConfigs ==
  {[url |-> MkUrl("https", HostMixed, "", <<>>, <<>>, <<>>),
    maxPages |-> mp, maxDepth |-> md, concurrency |-> cc,
    useSitemap |-> f.sm.ok, sitemapResult |-> f.sm,
    excludePatterns |-> f.ex, hierarchicalExclude |-> f.he, seedPaths |-> f.sp] :
     mp \in 1..MaxPagesBound, md \in 0..MaxDepthBound, cc \in 1..MaxConcurrency,
     f \in Features}

\* ------------------------------------------------------------------------
\* The crawler's request queue
\* ------------------------------------------------------------------------

\* the queue's deduplication key of a request: the URL with lowercased host,
\* without fragment and without one trailing slash; the query is kept
UniqueKey(url) ==
  LET parsed == ParseUrl(url)
  IN  [parsed EXCEPT !.path = IF EndsWith(parsed.path, Slash)
                              THEN DropLast(parsed.path) ELSE parsed.path,
                     !.hash = <<>>]

NewRequest(url, depth) ==
  [url |-> url, uniqueKey |-> UniqueKey(url), depth |-> depth, status |-> "pending",
   retryCount |-> 0, loadedUrl |-> NoUrl, pc |-> "queued", toEnqueue |-> <<>>]

\* addRequests: a URL whose key is in the queue already is dropped
RECURSIVE AddRequests(_, _, _)
AddRequests(queue, urls, depth) ==
  IF urls = <<>> THEN queue
  ELSE LET url == Head(urls)
           known == \E i \in 1..Len(queue) : queue[i].uniqueKey = UniqueKey(url)
       IN  AddRequests(IF known THEN queue ELSE Append(queue, NewRequest(url, depth)),
                       Tail(urls), depth)

RemoveAt(seq, i) == SubSeq(seq, 1, i - 1) \o SubSeq(seq, i + 1, Len(seq))

Running == {i \in 1..Len(reqs) : reqs[i].status = "running"}
Pending == {i \in 1..Len(reqs) : reqs[i].status = "pending"}

\* ------------------------------------------------------------------------
\* crawl(): seed resolution and crawler.run
\* ------------------------------------------------------------------------

CrawlInit ==
  /\ opts \in CrawlConfigs
  /\ seedUrls = <<>>
  /\ seedUrlSet = {}
  /\ reqs = <<>>
  /\ pages = <<>>
  /\ state = EmptyState
  /\ seenPatterns = {}
  /\ assetMap = <<>>
  /\ handled = 0
  /\ phase = "seed"
  /\ faults = 0
  /\ FnIdle

\* crawl() up to the construction of the crawler: seedUrls and seedUrlSet
Seed ==
  /\ phase = "seed"
  /\ seedUrls' = ResolveSeeds(opts)
  /\ seedUrlSet' = SeedUrlSet(opts)
  /\ phase' = "ready"
  /\ UNCHANGED <<opts, reqs, pages, state, seenPatterns, assetMap, handled, faults, fnVars>>

\* crawler.run(seedUrls): the seeds enter the queue at depth 0
Run ==
  /\ phase = "ready"
  /\ reqs' = AddRequests(<<>>, seedUrls, 0)
  /\ phase' = "run"
  /\ UNCHANGED <<opts, seedUrls, seedUrlSet, pages, state, seenPatterns, assetMap,
                 handled, faults, fnVars>>

\* ------------------------------------------------------------------------
\* The worker pool and the handlers
\* ------------------------------------------------------------------------

\* the mutant of MayDispatch: the pool ignores maxConcurrency
MayDispatch_NoLimit == handled < opts.maxPages

\* the pool starts a task while fewer than maxConcurrency run and fewer than
\* maxRequestsPerCrawl requests have been handled
MayDispatch ==
  /\ Cardinality(Running) < opts.concurrency
  /\ handled < opts.maxPages

\* the pool takes the first pending request of the queue and navigates to it
Dispatch ==
  /\ phase = "run"
  /\ MayDispatch
  /\ Pending # {}
  /\ LET i == CHOOSE k \in Pending : \A j \in Pending : k <= j
     IN  reqs' = [reqs EXCEPT ![i].status = "running", ![i].pc = "start",
                              ![i].loadedUrl = LoadedUrl(reqs[i].url)]
  /\ UNCHANGED <<opts, seedUrls, seedUrlSet, pages, state, seenPatterns, assetMap,
                 handled, phase, faults, fnVars>>

\* the mutant of HandlerStart: the handler goes on to its tail without the
\* extraction and the commit
HandlerStart_SkipCommit(i) ==
  /\ reqs[i].status = "running" /\ reqs[i].pc = "start"
  /\ reqs' = [reqs EXCEPT ![i].pc = "ssm"]
  /\ UNCHANGED <<opts, seedUrls, seedUrlSet, pages, state, seenPatterns, assetMap,
                 handled, phase, faults, fnVars>>

\* requestHandler up to waitForNetworkIdle: the redirect record
HandlerStart(i) ==
  /\ reqs[i].status = "running" /\ reqs[i].pc = "start"
  /\ state' = IF reqs[i].loadedUrl # reqs[i].url
              THEN [state EXCEPT !.redirects =
                      Append(@, [from |-> reqs[i].url, to |-> reqs[i].loadedUrl,
                                 status |-> 301])]
              ELSE state
  /\ reqs' = [reqs EXCEPT ![i].pc = "extract"]
  /\ UNCHANGED <<opts, seedUrls, seedUrlSet, pages, seenPatterns, assetMap,
                 handled, phase, faults, fnVars>>

\* the mutant of Commit: visited takes the requested URL, pages the loaded one
Commit_VisitedRequestUrl(i) ==
  /\ reqs[i].status = "running" /\ reqs[i].pc = "extract"
  /\ LET url == reqs[i].loadedUrl
     IN  /\ pages' = Append(pages, [url |-> url, depth |-> reqs[i].depth,
                                    links |-> SiteLinks(url), assets |-> SiteAssets(url)])
         /\ state' = [state EXCEPT !.visited = Append(@, reqs[i].url)]
  /\ reqs' = [reqs EXCEPT ![i].pc = "ssm"]
  /\ UNCHANGED <<opts, seedUrls, seedUrlSet, seenPatterns, assetMap,
                 handled, phase, faults, fnVars>>

\* the mutant of Commit: the page is pushed, the URL is not
Commit_NoVisited(i) ==
  /\ reqs[i].status = "running" /\ reqs[i].pc = "extract"
  /\ LET url == reqs[i].loadedUrl
     IN  pages' = Append(pages, [url |-> url, depth |-> reqs[i].depth,
                                 links |-> SiteLinks(url), assets |-> SiteAssets(url)])
  /\ reqs' = [reqs EXCEPT ![i].pc = "ssm"]
  /\ UNCHANGED <<opts, seedUrls, seedUrlSet, state, seenPatterns, assetMap,
                 handled, phase, faults, fnVars>>

\* requestHandler from the extraction to the two pushes of the commit
Commit(i) ==
  /\ reqs[i].status = "running" /\ reqs[i].pc = "extract"
  /\ LET url == reqs[i].loadedUrl
     IN  /\ pages' = Append(pages, [url |-> url, depth |-> reqs[i].depth,
                                    links |-> SiteLinks(url), assets |-> SiteAssets(url)])
         /\ state' = [state EXCEPT !.visited = Append(@, url)]
  /\ reqs' = [reqs EXCEPT ![i].pc = "ssm"]
  /\ UNCHANGED <<opts, seedUrls, seedUrlSet, seenPatterns, assetMap,
                 handled, phase, faults, fnVars>>

\* trackAssets(assets, pageUrl, assetMap)
RECURSIVE trackAssets(_, _, _)
trackAssets(assets, pageUrl, map) ==
  IF assets = <<>> THEN map
  ELSE LET asset == Head(assets)
           hit   == {k \in 1..Len(map) : map[k].url = asset.url}
           next  == IF hit # {}
                    THEN LET k == CHOOSE k \in hit : TRUE
                         IN  [map EXCEPT ![k].referencedBy = Append(@, pageUrl)]
                    ELSE Append(map, [url |-> asset.url, type |-> asset.type,
                                      referencedBy |-> <<pageUrl>>])
       IN  trackAssets(Tail(assets), pageUrl, next)

\* the mutant of LinkLoop: the pattern of a link that passes is not inserted
RECURSIVE LinkLoop_NoInsert(_, _)
LinkLoop_NoInsert(links, acc) ==
  IF links = <<>> THEN acc
  ELSE LET normalized == normalizeUrl(Head(links).url)
           analysis   == isDynamicUrl(normalized)
       IN  IF analysis.isDynamic /\ analysis.pattern # <<>> /\ analysis.pattern \in acc.seen
           THEN LinkLoop_NoInsert(Tail(links),
                  [acc EXCEPT !.skipped =
                     Append(@, [url |-> normalized,
                                reason |-> <<"dynamic:", analysis.pattern>>])])
           ELSE LinkLoop_NoInsert(Tail(links),
                  [acc EXCEPT !.urlsToEnqueue = Append(@, normalized)])

\* the loop over internalUrls: acc = [seen, skipped, urlsToEnqueue]
RECURSIVE LinkLoop(_, _)
LinkLoop(links, acc) ==
  IF links = <<>> THEN acc
  ELSE LET normalized == normalizeUrl(Head(links).url)
           analysis   == isDynamicUrl(normalized)
       IN  IF analysis.isDynamic /\ analysis.pattern # <<>>
           THEN IF analysis.pattern \in acc.seen
                THEN LinkLoop(Tail(links),
                       [acc EXCEPT !.skipped =
                          Append(@, [url |-> normalized,
                                     reason |-> <<"dynamic:", analysis.pattern>>])])
                ELSE LinkLoop(Tail(links),
                       [acc EXCEPT !.seen = @ \cup {analysis.pattern},
                                   !.urlsToEnqueue = Append(@, normalized)])
           ELSE LinkLoop(Tail(links), [acc EXCEPT !.urlsToEnqueue = Append(@, normalized)])

\* the mutant of MayExpand: a page at the depth limit still expands
MayExpand_Inclusive(depth) == depth <= opts.maxDepth

\* the mutant of MayExpand: every page expands
MayExpand_Always(depth) == TRUE

\* if (depth < opts.maxDepth)
MayExpand(depth) == depth < opts.maxDepth

\* links.filter(isInternal).filter(not excluded)
InternalUrls(links) ==
  LET keep(l) == l.isInternal /\ ~isExcluded(l.url, opts.excludePatterns)
  IN  SelectSeq(links, keep)

\* requestHandler after the awaits that follow the commit: trackAssets and the
\* loop that sorts the links into skipped and urlsToEnqueue
Expand(i) ==
  /\ reqs[i].status = "running" /\ reqs[i].pc = "ssm"
  /\ LET url == reqs[i].loadedUrl
         acc == LinkLoop(InternalUrls(SiteLinks(url)),
                         [seen |-> seenPatterns, skipped |-> state.skipped,
                          urlsToEnqueue |-> <<>>])
     IN  /\ assetMap' = trackAssets(SiteAssets(url), url, assetMap)
         /\ IF MayExpand(reqs[i].depth)
            THEN /\ seenPatterns' = acc.seen
                 /\ state' = [state EXCEPT !.skipped = acc.skipped]
                 /\ reqs' = [reqs EXCEPT ![i].pc = "enqueue",
                                          ![i].toEnqueue = acc.urlsToEnqueue]
            ELSE /\ reqs' = [reqs EXCEPT ![i].pc = "return"]
                 /\ UNCHANGED <<seenPatterns, state>>
  /\ UNCHANGED <<opts, seedUrls, seedUrlSet, pages, handled, phase, faults, fnVars>>

\* context.enqueueLinks({urls: urlsToEnqueue, userData: {depth: depth + 1}})
Enqueue(i) ==
  /\ reqs[i].status = "running" /\ reqs[i].pc = "enqueue"
  /\ reqs' = AddRequests([reqs EXCEPT ![i].pc = "return", ![i].toEnqueue = <<>>],
                         reqs[i].toEnqueue, reqs[i].depth + 1)
  /\ UNCHANGED <<opts, seedUrls, seedUrlSet, pages, state, seenPatterns, assetMap,
                 handled, phase, faults, fnVars>>

\* requestHandler has returned: the request is marked handled
Finish(i) ==
  /\ reqs[i].status = "running" /\ reqs[i].pc = "return"
  /\ reqs' = [reqs EXCEPT ![i].status = "handled", ![i].pc = "done"]
  /\ handled' = handled + 1
  /\ UNCHANGED <<opts, seedUrls, seedUrlSet, pages, state, seenPatterns, assetMap,
                 phase, faults, fnVars>>

\* the environment raises an error in request i: the navigation or an await
\* of requestHandler rejects or times out.  At most MaxFaults errors are
\* raised in a crawl, and only the site's flaky pages fail
MayFail(i) ==
  /\ reqs[i].status = "running"
  /\ reqs[i].pc \in {"start", "extract", "ssm", "enqueue"}
  /\ SiteFlaky(reqs[i].url)
  /\ faults < MaxFaults

\* the mutant of Retry: the retry takes back the last committed page
Retry_Rollback(i) ==
  /\ MayFail(i)
  /\ reqs[i].retryCount < MaxRequestRetries
  /\ faults' = faults + 1
  /\ pages' = SubSeq(pages, 1, Len(pages) - 1)
  /\ reqs' = Append(RemoveAt(reqs, i),
                    [reqs[i] EXCEPT !.status = "pending", !.pc = "queued",
                                    !.retryCount = @ + 1, !.loadedUrl = NoUrl,
                                    !.toEnqueue = <<>>])
  /\ UNCHANGED <<opts, seedUrls, seedUrlSet, state, seenPatterns, assetMap,
                 handled, phase, fnVars>>

\* an error with retries left: the request goes back to the end of the queue
Retry(i) ==
  /\ MayFail(i)
  /\ reqs[i].retryCount < MaxRequestRetries
  /\ faults' = faults + 1
  /\ reqs' = Append(RemoveAt(reqs, i),
                    [reqs[i] EXCEPT !.status = "pending", !.pc = "queued",
                                    !.retryCount = @ + 1, !.loadedUrl = NoUrl,
                                    !.toEnqueue = <<>>])
  /\ UNCHANGED <<opts, seedUrls, seedUrlSet, pages, state, seenPatterns, assetMap,
                 handled, phase, fnVars>>

\* the mutant of failedRequestHandler: the error escapes and ends the run
failedRequestHandler_Abort(i) ==
  /\ MayFail(i)
  /\ reqs[i].retryCount >= MaxRequestRetries
  /\ faults' = faults + 1
  /\ reqs' = [reqs EXCEPT ![i].status = "failed", ![i].pc = "done"]
  /\ phase' = "done"
  /\ UNCHANGED <<opts, seedUrls, seedUrlSet, pages, state, seenPatterns, assetMap,
                 handled, fnVars>>

\* an error with no retry left: failedRequestHandler
failedRequestHandler(i) ==
  /\ MayFail(i)
  /\ reqs[i].retryCount >= MaxRequestRetries
  /\ faults' = faults + 1
  /\ state' = [state EXCEPT !.failed =
                 Append(@, [url |-> reqs[i].url, error |-> "error",
                            attempts |-> reqs[i].retryCount + 1])]
  /\ reqs' = [reqs EXCEPT ![i].status = "failed", ![i].pc = "done"]
  /\ handled' = handled + 1
  /\ UNCHANGED <<opts, seedUrls, seedUrlSet, pages, seenPatterns, assetMap, phase, fnVars>>

\* crawler.run resolves: nothing runs, and the queue is drained or
\* maxRequestsPerCrawl requests have been handled; crawl() returns its result
Return ==
  /\ phase = "run"
  /\ Running = {}
  /\ Pending = {} \/ handled >= opts.maxPages
  /\ phase' = "done"
  /\ UNCHANGED <<opts, seedUrls, seedUrlSet, reqs, pages, state, seenPatterns, assetMap,
                 handled, faults, fnVars>>

Next ==
  \/ Seed
  \/ Run
  \/ Dispatch
  \/ \E i \in 1..Len(reqs) : HandlerStart(i)
  \/ \E i \in 1..Len(reqs) : Commit(i)
  \/ \E i \in 1..Len(reqs) : Expand(i)
  \/ \E i \in 1..Len(reqs) : Enqueue(i)
  \/ \E i \in 1..Len(reqs) : Finish(i)
  \/ \E i \in 1..Len(reqs) : Retry(i)
  \/ \E i \in 1..Len(reqs) : failedRequestHandler(i)
  \/ Return

Spec == CrawlInit /\ [][Next]_vars

\* ------------------------------------------------------------------------
\* Properties of the crawl
\* ------------------------------------------------------------------------

Range(f) == {f[i] : i \in DOMAIN f}

\* the requests that have been handed to a worker at least once
Dispatched == {i \in 1..Len(reqs) : reqs[i].status # "pending" \/ reqs[i].retryCount > 0}

\* C1: no URL has a terminal record in both ledgers: the normalized form of
\* a visited URL is never the normalized form of a failed record's URL.
C1_VisitedFailedDisjoint ==
  \A v \in Range(state.visited) : \A f \in Range(state.failed) :
    normalizeUrl(v) # normalizeUrl(f.url)

\* C2: when the crawl loop has ended, visited and failed together hold at
\* most maxPages records.
C2_BudgetAtTermination ==
  phase = "done" => Len(state.visited) + Len(state.failed) <= opts.maxPages

\* C3: at every point of a crawl at most maxPages targets have been
\* dispatched to a worker.
C3_DispatchedWithinBudget == Cardinality(Dispatched) <= opts.maxPages

\* C4: no page and no queued or dispatched target is deeper than maxDepth;
\* a target of depth 0 is a seed, and a target of depth d + 1 is a link of a
\* page committed at depth d < maxDepth.
C4_DepthInvariant ==
  /\ \A p \in Range(pages) : p.depth <= opts.maxDepth
  /\ \A r \in Range(reqs) :
       /\ r.depth <= opts.maxDepth
       /\ r.depth = 0 => r.url \in Range(seedUrls)
       /\ r.depth > 0 =>
            \E p \in Range(pages) :
              /\ p.depth = r.depth - 1
              /\ p.depth < opts.maxDepth
              /\ \E l \in Range(p.links) : l.isInternal /\ normalizeUrl(l.url) = r.url

\* witness of C4: a page at the depth limit (below the seeds) whose handler
\* has returned and whose internal links were left out of the queue
C4_Witness ==
  \E r \in Range(reqs) :
    /\ r.status = "handled"
    /\ r.depth = opts.maxDepth /\ r.depth > 0
    /\ \E l \in Range(SiteLinks(r.loadedUrl)) :
         /\ l.isInternal
         /\ \A q \in Range(reqs) : q.uniqueKey # UniqueKey(normalizeUrl(l.url))

\* C5: no two dispatched targets have the same normalized URL.
C5_NoNormalizedUrlTwice ==
  \A i \in Dispatched : \A j \in Dispatched :
    i # j => normalizeUrl(reqs[i].url) # normalizeUrl(reqs[j].url)

\* C6: once a URL of dynamic pattern p has been dispatched (from whatever
\* source), no other URL of pattern p enters the queue afterwards.
C6_DynamicPatternOnce ==
  [][\A k \in (Len(reqs) + 1)..Len(reqs') :
       LET a == isDynamicUrl(reqs'[k].url)
       IN  a.isDynamic =>
             \A i \in Dispatched :
               \/ reqs[i].url = reqs'[k].url
               \/ isDynamicUrl(reqs[i].url).pattern # a.pattern]_vars

\* C8: at most `concurrency` targets are inside the pool's task (navigation
\* and requestHandler) at any time.
C8_ConcurrencyBound == Cardinality(Running) <= opts.concurrency

\* witness of C8: the pool is full with two or more running targets while a
\* further target waits in the queue
C8_Witness ==
  /\ phase = "run"
  /\ opts.concurrency >= 2
  /\ Cardinality(Running) = opts.concurrency
  /\ Pending # {}
  /\ handled < opts.maxPages

\* C9: a failing target does not abort the crawl: every failed request has
\* exactly one failed record, with its URL and attempts >= 1, there is no
\* other failed record, the crawl can always take a step until it returns,
\* and it does not return with pending targets while the budget allows more.
C9_FailureIsolated ==
  /\ \A r \in Range(reqs) :
       r.status = "failed" =>
         Cardinality({k \in 1..Len(state.failed) : state.failed[k].url = r.url}) = 1
  /\ \A f \in Range(state.failed) :
       /\ f.attempts >= 1
       /\ \E r \in Range(reqs) :
            r.status = "failed" /\ r.url = f.url /\ f.attempts = r.retryCount + 1
  /\ (phase = "run" /\ Running = {}) => (ENABLED Dispatch \/ ENABLED Return)
  /\ (phase = "done" /\ handled < opts.maxPages) => Pending = {}

\* witness of C9: the crawl has returned with one target failed and a target
\* of another URL handled
C9_Witness ==
  /\ phase = "done"
  /\ \E i \in 1..Len(reqs) : \E j \in 1..Len(reqs) :
       /\ reqs[i].status = "failed"
       /\ reqs[j].status = "handled"
       /\ normalizeUrl(reqs[j].loadedUrl) # normalizeUrl(reqs[i].url)
       /\ Len(state.failed) = 1
       /\ Len(state.visited) >= 2

\* C10: the seed list handed to crawler.run has at most maxPages entries.
C10_SeedsWithinBudget ==
  phase # "seed" => Len(seedUrls) <= opts.maxPages

\* the URLs of the committed pages that reference the asset, in commit order
ReferencingPages(assetUrl) ==
  LET refers(p) == \E a \in Range(p.assets) : a.url = assetUrl
      referring == SelectSeq(pages, refers)
  IN  [k \in 1..Len(referring) |-> referring[k].url]

\* C14: whenever no handler is between its commit and its asset fold, the
\* manifest has exactly one entry per asset URL of the committed pages, and
\* the entry's referencedBy is the list of the URLs of the committed pages
\* that reference the asset, each once, in commit order.
C14_AssetManifest ==
  (\A r \in Range(reqs) : r.pc # "ssm") =>
    /\ \A i \in 1..Len(assetMap) : \A j \in 1..Len(assetMap) :
         i # j => assetMap[i].url # assetMap[j].url
    /\ \A p \in Range(pages) : \A a \in Range(p.assets) :
         \E i \in 1..Len(assetMap) : assetMap[i].url = a.url
    /\ \A i \in 1..Len(assetMap) :
         assetMap[i].referencedBy = ReferencingPages(assetMap[i].url)

\* the pool has a free slot, budget left and a queued request to start
CanDispatch == phase = "run" /\ MayDispatch /\ Pending # {}

\* a handler sits at its awaits after the commit (the optional expansion)
CanExpand ==
  \E i \in 1..Len(reqs) : reqs[i].status = "running" /\ reqs[i].pc = "ssm"

\* the scheduling of the event loop and of the pool: each kind of step that
\* stays possible is eventually taken.  The conditions on Dispatch and on
\* Expand are weak fairness written out, with the guard of the action in
\* place of ENABLED
Fairness ==
  /\ WF_vars(Seed)
  /\ WF_vars(Run)
  /\ WF_vars(\E i \in 1..Len(reqs) : HandlerStart(i))
  /\ WF_vars(\E i \in 1..Len(reqs) : Commit(i))
  /\ WF_vars(\E i \in 1..Len(reqs) : Enqueue(i))
  /\ WF_vars(\E i \in 1..Len(reqs) : Finish(i))
  /\ WF_vars(Return)
  /\ ([]<>(~CanDispatch) \/ []<><<Dispatch>>_vars)
  /\ ([]<>(~CanExpand) \/ []<><<\E i \in 1..Len(reqs) : Expand(i)>>_vars)

\* crawl() under that scheduling
LiveSpec == CrawlInit /\ [][Next]_vars /\ Fairness

\* crawl() eventually returns, and it returns with no target in flight and
\* with the queue drained or maxPages requests handled; once maxPages
\* requests have been handled no further target is started
TerminatesOnHandledBudget ==
  /\ <>(phase = "done")
  /\ [](phase = "done" => (Running = {} /\ (Pending = {} \/ handled >= opts.maxPages)))
  /\ [][handled >= opts.maxPages => Cardinality(Running') <= Cardinality(Running)]_vars

\* C17: every crawl terminates: crawl() eventually returns, with no target
\* in flight and with the queue drained or the page budget reached, and once
\* maxPages targets have been dispatched no further target is started.
C17_Terminates ==
  /\ <>(phase = "done")
  /\ [](phase = "done" =>
        (Running = {} /\ (Pending = {} \/ Cardinality(Dispatched) >= opts.maxPages)))
  /\ [][Cardinality(Dispatched) >= opts.maxPages =>
          Cardinality(Dispatched') <= Cardinality(Dispatched)]_vars

\* witness of C17: the crawl has returned on the page budget, with a target
\* still waiting in the queue
C17_Witness ==
  /\ phase = "done"
  /\ handled >= opts.maxPages
  /\ Pending # {}

\* C18: with maxDepth = 0 every target is a seed at depth 0, no handler
\* reaches enqueueLinks, and state.skipped stays empty.
C18_DepthZeroSeedsOnly ==
  opts.maxDepth = 0 =>
    /\ \A r \in Range(reqs) :
         r.depth = 0 /\ r.url \in Range(seedUrls) /\ r.pc # "enqueue" /\ r.toEnqueue = <<>>
    /\ Len(reqs) <= Len(seedUrls)
    /\ state.skipped = <<>>

\* witness of C18: a crawl with maxDepth = 0 has returned after committing a
\* page that has internal links
C18_Witness ==
  /\ opts.maxDepth = 0
  /\ phase = "done"
  /\ \E p \in Range(pages) : \E l \in Range(p.links) : l.isInternal

\* C25: every entry of state.visited is in normalized form, whatever the
\* source of its target and whether or not the load was redirected.
C25_VisitedNormalized ==
  \A v \in Range(state.visited) : normalizeUrl(v) = v

\* the requests whose handler has passed the redirect check of the attempt
\* that is running or has returned
PastRedirectCheck ==
  {r \in Range(reqs) : r.status \in {"running", "handled"} /\ r.pc # "start"}

\* C26: every redirect record has from = the requested URL of a target,
\* to = the URL that target loaded, from # to and status 301; a target
\* past the check has a record exactly if its loaded URL differs from its
\* requested URL; and no target has two records, retries included.
C26_RedirectRecords ==
  /\ \A rec \in Range(state.redirects) :
       /\ rec.from # rec.to
       /\ rec.status = 301
       /\ \E r \in Range(reqs) : r.url = rec.from /\ rec.to = LoadedUrl(r.url)
  /\ \A r \in PastRedirectCheck :
       (r.loadedUrl # r.url) <=> (\E rec \in Range(state.redirects) : rec.from = r.url)
  /\ \A k \in 1..Len(state.redirects) : \A l \in 1..Len(state.redirects) :
       k # l => state.redirects[k].from # state.redirects[l].from

\* another target than r, not failed, has loaded the URL u
LoadedByOther(r, u) ==
  \E q \in Range(reqs) : q # r /\ q.status # "failed" /\ q.loadedUrl = u

\* C27: a target that ended in failed has left no page, no visited entry
\* and no asset reference: an entry under the URL it loads stems from
\* another target that loaded the same URL.
C27_FailedLeavesNothing ==
  \A r \in Range(reqs) :
    r.status = "failed" =>
      LET u == LoadedUrl(r.url)
      IN  /\ \A pg \in Range(pages) : pg.url = u => LoadedByOther(r, u)
          /\ \A v \in Range(state.visited) : v = u => LoadedByOther(r, u)
          /\ \A a \in Range(assetMap) : u \in Range(a.referencedBy) => LoadedByOther(r, u)

\* the page of URL u is committed: it is in pages and u is in visited
Committed(u, depth) ==
  /\ u \in Range(state.visited)
  /\ \E pg \in Range(pages) : pg.url = u /\ pg.depth = depth

\* a committed page one level above links to url
DiscoveredByCommitted(url, depth) ==
  \E pg \in Range(pages) :
    /\ pg.depth = depth - 1
    /\ pg.url \in Range(state.visited)
    /\ \E l \in Range(pg.links) : l.isInternal /\ normalizeUrl(l.url) = url

\* C28: a handler that is past its commit has its page in pages and its URL
\* in visited; one that is past the asset fold has its assets in the asset
\* map; links wait for the enqueue only in a handler past its commit; and a
\* target found through a link enters the queue, and so is dispatched, only
\* after a page that links to it has been committed.
C28_StepOrder ==
  /\ [](\A r \in Range(reqs) :
          /\ (r.status = "running" /\ r.pc \in {"ssm", "enqueue", "return"})
               => Committed(r.loadedUrl, r.depth)
          /\ (r.status = "running" /\ r.pc \in {"enqueue", "return"})
               => \A a \in Range(SiteAssets(r.loadedUrl)) :
                    \E m \in Range(assetMap) :
                      m.url = a.url /\ r.loadedUrl \in Range(m.referencedBy)
          /\ (r.status = "running" /\ r.toEnqueue # <<>>)
               => (r.pc = "enqueue" /\ Committed(r.loadedUrl, r.depth))
          /\ r.depth > 0 => DiscoveredByCommitted(r.url, r.depth))
  /\ [][\A k \in (Len(reqs) + 1)..Len(reqs') :
          reqs'[k].depth > 0 => DiscoveredByCommitted(reqs'[k].url, reqs'[k].depth)]_vars

\* witness of C28: a target found through a link is being handled and past
\* its own commit while the handler of the page that links to it, past its
\* enqueue, has not returned yet
C28_Witness ==
  \E r \in Range(reqs) : \E q \in Range(reqs) :
    /\ q.depth = 0 /\ q.status = "running" /\ q.pc = "return"
    /\ r.depth = 1 /\ r.status = "running" /\ r.pc = "ssm"
    /\ \E l \in Range(SiteLinks(q.loadedUrl)) : l.isInternal /\ normalizeUrl(l.url) = r.url

\* C29: visited is in commit order: its k-th entry is the URL of the k-th
\* committed page, whatever the order in which the targets were enqueued.
C29_VisitedIsCommitOrder ==
  /\ Len(state.visited) = Len(pages)
  /\ \A k \in 1..Len(pages) : state.visited[k] = pages[k].url

\* witness of C29: with two workers and no error, a target that entered the
\* queue later stands in visited before a target that entered it earlier
C29_Witness ==
  /\ opts.concurrency >= 2
  /\ faults = 0
  /\ \E i \in 1..Len(reqs) : \E j \in 1..Len(reqs) :
       \E k \in 1..Len(state.visited) : \E l \in 1..Len(state.visited) :
         /\ i < j
         /\ k < l
         /\ state.visited[k] = reqs[j].loadedUrl
         /\ state.visited[l] = reqs[i].loadedUrl

IsPrefix(s, t) == Len(s) <= Len(t) /\ SubSeq(t, 1, Len(s)) = s

\* C30: visited, failed, redirects, skipped and pages only grow at the end:
\* in every step the old value is a prefix of the new one.
C30_AppendOnly ==
  [][/\ IsPrefix(state.visited, state'.visited)
     /\ IsPrefix(state.failed, state'.failed)
     /\ IsPrefix(state.redirects, state'.redirects)
     /\ IsPrefix(state.skipped, state'.skipped)
     /\ IsPrefix(pages, pages')]_vars

\* witness of C30: a target was retried after its commit and failed in the
\* end, and the ledgers hold records
C30_Witness ==
  /\ state.failed # <<>>
  /\ state.visited # <<>>
  /\ state.redirects # <<>>
  /\ Len(pages) >= 2

\* a URL the link loop treats as dynamic, and its pattern
Dynamic(u) == isDynamicUrl(u).isDynamic /\ isDynamicUrl(u).pattern # <<>>
PatternOf(u) == isDynamicUrl(u).pattern

\* the URLs that link expansion has handed or is about to hand to enqueueLinks
EnqueuedByLinks ==
  {reqs[i].url : i \in {j \in 1..Len(reqs) : reqs[j].depth > 0}}
    \cup UNION {Range(reqs[i].toEnqueue) : i \in 1..Len(reqs)}

\* the internal, not excluded links of the page request i has loaded, normalized
NormalizedLinks(i) ==
  LET internalUrls == InternalUrls(SiteLinks(reqs[i].loadedUrl))
  IN  [k \in 1..Len(internalUrls) |-> normalizeUrl(internalUrls[k].url)]

\* how many members of a sequence of URLs carry the pattern
WithPattern(urls, pattern) ==
  Cardinality({k \in 1..Len(urls) : Dynamic(urls[k]) /\ PatternOf(urls[k]) = pattern})

\* one run of the link loop in request i: a pattern passes at most once and
\* only if it was not seen before, and every other link of the pattern is
\* recorded as skipped with the reason dynamic:pattern
LinkLoopOncePerPattern(i) ==
  LET links   == NormalizedLinks(i)
      passed  == reqs'[i].toEnqueue
      added   == SubSeq(state'.skipped, Len(state.skipped) + 1, Len(state'.skipped))
      addedUrls == [k \in 1..Len(added) |-> added[k].url]
  IN  /\ \A k \in 1..Len(passed) :
           Dynamic(passed[k]) =>
             /\ PatternOf(passed[k]) \notin seenPatterns
             /\ PatternOf(passed[k]) \in seenPatterns'
             /\ WithPattern(passed, PatternOf(passed[k])) = 1
      /\ \A k \in 1..Len(added) :
           /\ Dynamic(added[k].url)
           /\ added[k].reason = <<"dynamic:", PatternOf(added[k].url)>>
      /\ \A k \in 1..Len(links) :
           Dynamic(links[k]) =>
             WithPattern(links, PatternOf(links[k])) =
               WithPattern(passed, PatternOf(links[k]))
                 + WithPattern(addedUrls, PatternOf(links[k]))

\* C34: the test of a pattern against seenPatterns and its insertion are one
\* step, so in the whole crawl at most one URL of a dynamic pattern is
\* enqueued through link expansion, and every other link with that pattern
\* gives a skipped record with the reason dynamic:pattern.
C34_OncePerPattern ==
  /\ [](\A u \in EnqueuedByLinks, v \in EnqueuedByLinks :
          Dynamic(u) /\ Dynamic(v) /\ PatternOf(u) = PatternOf(v) => u = v)
  /\ [](\A u \in EnqueuedByLinks : Dynamic(u) => PatternOf(u) \in seenPatterns)
  /\ [][/\ seenPatterns \subseteq seenPatterns'
        /\ \A i \in 1..Len(reqs) :
             Expand(i) /\ MayExpand(reqs[i].depth) => LinkLoopOncePerPattern(i)]_vars

\* witness of C34: two handlers have run the link loop, one URL of a pattern
\* is in the queue through link expansion, and another link of the pattern
\* was skipped
C34_Witness ==
  /\ \E u \in EnqueuedByLinks : \E k \in 1..Len(state.skipped) :
       /\ Dynamic(u)
       /\ state.skipped[k].reason = <<"dynamic:", PatternOf(u)>>
  /\ Cardinality({i \in 1..Len(reqs) : reqs[i].depth = 0 /\ reqs[i].pc \in {"enqueue", "return", "done"}
                                         /\ reqs[i].status # "failed"}) >= 2

\* C35: pages and visited are one ledger: in every reachable state the URLs
\* of pages, read in order, are visited, and no step appends to one of the
\* two without appending the same URL to the other.
C35_PagesAndVisitedTogether ==
  /\ [](state.visited = [k \in 1..Len(pages) |-> pages[k].url])
  /\ [][\/ pages' = pages /\ state'.visited = state.visited
        \/ \E url \in {pages'[Len(pages')].url} :
             /\ Len(pages') = Len(pages) + 1
             /\ state'.visited = Append(state.visited, url)]_vars

\* witness of C35: the handler of a redirected request has committed and is
\* suspended after the commit while another handler runs, two pages in all
C35_Witness ==
  /\ Len(pages) >= 2
  /\ \E i \in Running, j \in Running :
       /\ i # j
       /\ reqs[i].pc = "ssm"
       /\ reqs[i].loadedUrl # reqs[i].url
       /\ pages[Len(pages)].url = reqs[i].loadedUrl

\* C36: no URL is committed twice: visited holds no URL at two positions and
\* no two pages carry the same url.
C36_CommittedOnce ==
  /\ \A k \in 1..Len(state.visited), l \in 1..Len(state.visited) :
       state.visited[k] = state.visited[l] => k = l
  /\ \A k \in 1..Len(pages), l \in 1..Len(pages) :
       pages[k].url = pages[l].url => k = l

\* the same when no request is attempted twice and none is redirected
CommittedOnceWithoutRetryAndRedirect ==
  (faults = 0 /\ state.redirects = <<>>) => C36_CommittedOnce

\* the URLs of the skipped and of the failed records
SkippedUrls == {state.skipped[k].url : k \in 1..Len(state.skipped)}
FailedUrls == {state.failed[k].url : k \in 1..Len(state.failed)}

\* C37: a URL with a skipped record is never dispatched: no URL is in
\* skipped and also in visited or in failed.
C37_SkippedNeverDispatched ==
  /\ SkippedUrls \cap Range(state.visited) = {}
  /\ SkippedUrls \cap FailedUrls = {}
  /\ \A i \in Dispatched : reqs[i].url \notin SkippedUrls

\* what the link loop does ensure: a skipped URL carries a pattern that is in
\* seenPatterns
SkippedPatternWasSeen ==
  \A u \in SkippedUrls : Dynamic(u) /\ PatternOf(u) \in seenPatterns

\* every asset of every page is in the manifest, referenced by the page
PageAssetsTracked ==
  \A k \in 1..Len(pages) : \A a \in 1..Len(pages[k].assets) :
    \E e \in 1..Len(assetMap) :
      /\ assetMap[e].url = pages[k].assets[a].url
      /\ pages[k].url \in Range(assetMap[e].referencedBy)

\* every reference of the manifest is the url of a page
ReferencesArePages ==
  \A e \in 1..Len(assetMap) : \A ref \in Range(assetMap[e].referencedBy) :
    \E k \in 1..Len(pages) : pages[k].url = ref

\* C38: when the crawl has ended the manifest is the fold of the final page
\* list: every asset of every page has a manifest entry whose referencedBy
\* holds the page's url, and every referencedBy entry is the url of a page,
\* whatever failures and retries occurred.
C38_ManifestIsFoldOfPages ==
  phase = "done" => PageAssetsTracked /\ ReferencesArePages

\* the half that does hold, in every state: the manifest references pages only
ManifestReferencesPagesOnly == ReferencesArePages

\* ------------------------------------------------------------------------
\* normalizeUrl applied to its own result
\* ------------------------------------------------------------------------

\* up to MaxSlashes trailing slashes after the path /a
MaxSlashes == 2

RECURSIVE Slashes(_)
Slashes(n) == IF n = 0 THEN <<>> ELSE Slash \o Slashes(n - 1)

NormPaths ==
  {<<>>} \cup {Slashes(n) : n \in 1..MaxSlashes}
         \cup {<<"/", "a">> \o Slashes(n) : n \in 0..MaxSlashes}
         \cup {<<"/", "a", "/", "b">> \o Slashes(n) : n \in 0..MaxSlashes}

NormInputs ==
  {MkUrl(sc, h, po, pa, se, ha) :
     sc \in {"http", "https"}, h \in {HostLower, HostMixed},
     po \in {"", "80", "443", "8080"}, pa \in NormPaths,
     se \in {<<>>, <<"?", "q", "=", "1">>}, ha \in {<<>>, <<"#", "h">>}}
  \cup {BadUrl(<<"n", "o", "t", "-", "a", "-", "u", "r", "l">>)}

NormInit ==
  /\ CrawlIdle
  /\ input \in NormInputs
  /\ output = <<>>

\* const n1 = normalizeUrl(u)
NormFirst ==
  /\ output = <<>>
  /\ output' = <<normalizeUrl(input)>>
  /\ UNCHANGED <<input, crawlVars>>

\* const n2 = normalizeUrl(n1)
NormSecond ==
  /\ Len(output) = 1
  /\ output' = Append(output, normalizeUrl(output[1]))
  /\ UNCHANGED <<input, crawlVars>>

NormNext == NormFirst \/ NormSecond

SpecNorm == NormInit /\ [][NormNext]_vars

\* C7: normalizeUrl is idempotent: normalizing a normalized URL changes
\* nothing, for every parseable input (any host case, port, query, fragment
\* and number of trailing slashes).
C7_NormalizeIdempotent ==
  (input.valid /\ Len(output) = 2) => output[2] = output[1]

\* ------------------------------------------------------------------------
\* parseSitemap (src/services/sitemap.ts)
\* ------------------------------------------------------------------------

\* maxDepth of sitemap.ts DEFAULT_OPTIONS
DefaultSitemapDepth == 3

SitemapPath == <<"/", "s", "i", "t", "e", "m", "a", "p", ".", "x", "m", "l">>

\* getSitemapUrl(baseUrl)
getSitemapUrl(baseUrl) ==
  IF ~baseUrl.valid THEN BadUrl(baseUrl.path \o SitemapPath)
  ELSE [ParseUrl(baseUrl) EXCEPT !.path = SitemapPath, !.search = <<>>, !.hash = <<>>]

\* what fetch(url) and parseXml give for a sitemap address: a rejected fetch
\* (or a parser exception), a response that is not ok, or a parsed document
\* with its <sitemap> or <url> entries (locs; NoUrl is an entry without loc)
DocThrow == [kind |-> "throw", status |-> 0, locs |-> <<>>]
DocHttp(status) == [kind |-> "http", status |-> status, locs |-> <<>>]
DocInvalid == [kind |-> "other", status |-> 200, locs |-> <<>>]
DocIndex(locs) == [kind |-> "sitemapindex", status |-> 200, locs |-> locs]
DocUrlset(locs) == [kind |-> "urlset", status |-> 200, locs |-> locs]

\* the addresses of the nested sitemaps of the modelled webs
Sm1 == Site(<<"/", "s", "1">>, <<>>)
Sm2 == Site(<<"/", "s", "2">>, <<>>)
Sm3 == Site(<<"/", "s", "3">>, <<>>)

\* await fetch(url): web holds the documents at /sitemap.xml, /s/1, /s/2, /s/3
Fetch(web, url) ==
  CASE url.valid /\ url.path = SitemapPath -> web.root
    [] url = Sm1 -> web.s1
    [] url = Sm2 -> web.s2
    [] url = Sm3 -> web.s3
    [] OTHER -> DocHttp(404)

\* an entry of result.errors: the kind of the message and the URL it names
SitemapError(kind, url) == [kind |-> kind, url |-> url]

\* the result parseSitemap starts from; fetched logs the calls of fetch and
\* thrown is set while an exception propagates
EmptySitemapResult ==
  [urls |-> <<>>, sitemapsProcessed |-> 0, errors |-> <<>>, fetched |-> <<>>,
   thrown |-> FALSE]

\* the mutant of TooDeep: the limit is tested against half the depth
TooDeep_HalfDepth(depth, maxDepth) == depth > 2 * maxDepth + 1

\* the mutant of TooDeep: one more level is fetched
TooDeep_OneMore(depth, maxDepth) == depth > maxDepth + 1

\* if (depth > maxDepth)
TooDeep(depth, maxDepth) == depth > maxDepth

\* the mutant of CatchFetch: the exception is not caught
CatchFetch_Rethrow(result, url) == result

\* the catch block of fetchSitemapRecursive

CatchFetch(result, url) ==
  IF result.thrown
  THEN [result EXCEPT !.thrown = FALSE,
                      !.errors = Append(@, SitemapError("Failed to fetch", url))]
  ELSE result

RECURSIVE fetchSitemapRecursive(_, _, _, _, _)
RECURSIVE FetchChildren(_, _, _, _, _)

\* for (const sm of sitemaps) if (sm.loc) await fetchSitemapRecursive(...)
FetchChildren(web, sitemaps, result, depth, maxDepth) ==
  IF sitemaps = <<>> \/ result.thrown THEN result
  ELSE LET loc  == Head(sitemaps)
           next == IF loc = NoUrl THEN result
                   ELSE fetchSitemapRecursive(web, loc, result, depth + 1, maxDepth)
       IN  FetchChildren(web, Tail(sitemaps), next, depth, maxDepth)

\* the try block of fetchSitemapRecursive
FetchBody(web, url, result, depth, maxDepth) ==
  LET response == Fetch(web, url)
      called   == [result EXCEPT !.fetched = Append(@, [url |-> url, depth |-> depth])]
      counted  == [called EXCEPT !.sitemapsProcessed = @ + 1]
      hasLoc(entry) == entry # NoUrl
  IN  CASE response.kind = "throw" -> [called EXCEPT !.thrown = TRUE]
        [] response.kind = "http" ->
             [called EXCEPT !.errors = Append(@, SitemapError("HTTP", url))]
        [] response.kind = "sitemapindex" /\ response.locs # <<>> ->
             FetchChildren(web, response.locs, counted, depth, maxDepth)
        [] response.kind = "urlset" ->
             [counted EXCEPT !.urls = @ \o SelectSeq(response.locs, hasLoc)]
        [] OTHER ->
             [counted EXCEPT !.errors = Append(@, SitemapError("Invalid sitemap format", url))]

fetchSitemapRecursive(web, url, result, depth, maxDepth) ==
  IF TooDeep(depth, maxDepth)
  THEN [result EXCEPT !.errors = Append(@, SitemapError("Max depth", url))]
  ELSE CatchFetch(FetchBody(web, url, result, depth, maxDepth), url)

\* parseSitemap(url, {maxDepth})
parseSitemap(web, url, maxDepth) ==
  fetchSitemapRecursive(web, url, EmptySitemapResult, 0, maxDepth)

\* up to MaxSitemapDepth levels of nesting are allowed in the checked calls
MaxSitemapDepth == 2

RootDocs ==
  {DocIndex(<<Sm1, Sm2>>), DocIndex(<<Sm1, NoUrl, Sm2>>), DocIndex(<<Sm1>>),
   DocIndex(<<>>), DocUrlset(<<Site(PathA, <<>>), Site(PathB, <<>>)>>),
   DocUrlset(<<>>), DocHttp(404), DocThrow, DocInvalid}

Sm1Docs ==
  {DocHttp(500), DocThrow, DocInvalid, DocUrlset(<<Site(PathA, <<>>)>>),
   DocIndex(<<Sm2, Sm3>>), DocIndex(<<Sm1>>), DocIndex(<<Sm1, Sm2>>)}

Sm2Docs ==
  {DocHttp(404), DocThrow, DocUrlset(<<Site(PathB, <<>>), NoUrl>>), DocIndex(<<Sm3>>),
   DocIndex(<<Sm2, Sm1>>)}

Sm3Docs == {DocUrlset(<<Site(PathC, <<>>)>>), DocThrow}

SitemapWebs == [root : RootDocs, s1 : Sm1Docs, s2 : Sm2Docs, s3 : Sm3Docs]

SitemapInit ==
  /\ CrawlIdle
  /\ input \in [web : SitemapWebs,
                url : {getSitemapUrl(MkUrl("https", HostMixed, "", <<>>, <<>>, <<>>))},
                maxDepth : 0..MaxSitemapDepth]
  /\ output = <<>>

\* const result = await parseSitemap(url, {maxDepth})
ParseSitemap ==
  /\ output = <<>>
  /\ output' = <<parseSitemap(input.web, input.url, input.maxDepth)>>
  /\ UNCHANGED <<input, crawlVars>>

SitemapNext == ParseSitemap

SpecSitemap == SitemapInit /\ [][SitemapNext]_vars

\* the documents that were fetched with an OK response and parsed
ParsedKinds == {"sitemapindex", "urlset", "other"}

\* a fetched document that gives no entries: a rejected fetch, a response
\* that is not ok, or a document that is neither an index nor a urlset
FailedDoc(doc) ==
  doc.kind \in {"throw", "http", "other"} \/ (doc.kind = "sitemapindex" /\ doc.locs = <<>>)

\* number of entries with a loc
RECURSIVE CountLocs(_)
CountLocs(locs) ==
  IF locs = <<>> THEN 0
  ELSE (IF Head(locs) = NoUrl THEN 0 ELSE 1) + CountLocs(Tail(locs))

\* number of references found in the indexes fetched at depth maxDepth
RECURSIVE DeepRefs(_, _, _)
DeepRefs(web, fetched, maxDepth) ==
  IF fetched = <<>> THEN 0
  ELSE (IF Head(fetched).depth = maxDepth /\ Fetch(web, Head(fetched).url).kind = "sitemapindex"
        THEN CountLocs(Fetch(web, Head(fetched).url).locs) ELSE 0)
       + DeepRefs(web, Tail(fetched), maxDepth)

\* C19: parseSitemap fetches no sitemap deeper than maxDepth below the root;
\* every reference found at depth maxDepth gives one 'Max depth' error
\* instead of a fetch, and sitemapsProcessed is the number of documents
\* fetched with an OK response and parsed.
C19_SitemapDepthBound ==
  Len(output) = 1 =>
    LET r == output[1]
    IN  /\ \A k \in 1..Len(r.fetched) : r.fetched[k].depth <= input.maxDepth
        /\ Cardinality({k \in 1..Len(r.errors) : r.errors[k].kind = "Max depth"})
             = DeepRefs(input.web, r.fetched, input.maxDepth)
        /\ r.sitemapsProcessed
             = Cardinality({k \in 1..Len(r.fetched) :
                              Fetch(input.web, r.fetched[k].url).kind \in ParsedKinds})

\* witness of C19: two levels were fetched and a reference of the next level
\* was refused with a 'Max depth' error
C19_Witness ==
  /\ Len(output) = 1
  /\ input.maxDepth >= 1
  /\ output[1].sitemapsProcessed >= 2
  /\ \E k \in 1..Len(output[1].errors) : output[1].errors[k].kind = "Max depth"

\* the URLs of the successful branches below url, in document order
RECURSIVE BranchUrls(_, _, _, _)
RECURSIVE BranchUrlsOf(_, _, _, _)
BranchUrlsOf(web, locs, depth, maxDepth) ==
  IF locs = <<>> THEN <<>>
  ELSE (IF Head(locs) = NoUrl THEN <<>> ELSE BranchUrls(web, Head(locs), depth + 1, maxDepth))
       \o BranchUrlsOf(web, Tail(locs), depth, maxDepth)

BranchUrls(web, url, depth, maxDepth) ==
  LET doc == Fetch(web, url)
      hasLoc(entry) == entry # NoUrl
  IN  IF depth > maxDepth THEN <<>>
      ELSE CASE doc.kind = "urlset" -> SelectSeq(doc.locs, hasLoc)
             [] doc.kind = "sitemapindex" -> BranchUrlsOf(web, doc.locs, depth, maxDepth)
             [] OTHER -> <<>>

\* C20: parseSitemap never rejects; every child of a fetched index within
\* the depth limit is fetched whatever happened to its siblings, every failed
\* fetch gives exactly one error, and the URLs of the successful branches are
\* returned in document order.
C20_SitemapBranchFailures ==
  Len(output) = 1 =>
    LET r == output[1]
    IN  /\ ~r.thrown
        /\ \A k \in 1..Len(r.fetched) :
             LET doc == Fetch(input.web, r.fetched[k].url)
             IN  (doc.kind = "sitemapindex" /\ r.fetched[k].depth < input.maxDepth) =>
                   \A loc \in Range(doc.locs) :
                     loc # NoUrl =>
                       \E j \in (k + 1)..Len(r.fetched) :
                         r.fetched[j] = [url |-> loc, depth |-> r.fetched[k].depth + 1]
        /\ Cardinality({k \in 1..Len(r.errors) : r.errors[k].kind # "Max depth"})
             = Cardinality({k \in 1..Len(r.fetched) :
                              FailedDoc(Fetch(input.web, r.fetched[k].url))})
        /\ r.urls = BranchUrls(input.web, input.url, 0, input.maxDepth)

\* witness of C20: the first child of the root index failed, a later child
\* was fetched and its URLs are in the result
C20_Witness ==
  /\ Len(output) = 1
  /\ input.web.root.kind = "sitemapindex"
  /\ Len(output[1].fetched) >= 3
  /\ FailedDoc(Fetch(input.web, output[1].fetched[2].url))
  /\ output[1].fetched[3].depth = 1
  /\ output[1].urls # <<>>
  /\ Len(output[1].errors) = 1

\* parseSitemap is called and, the call being made, it is carried out
LiveSitemap == SitemapInit /\ [][SitemapNext]_vars /\ WF_vars(ParseSitemap)

\* the largest number of children with a loc among the indexes of the web
Branching(web) ==
  LET counts == {IF doc.kind = "sitemapindex" THEN CountLocs(doc.locs) ELSE 0 :
                   doc \in {web.root, web.s1, web.s2, web.s3}}
  IN  CHOOSE b \in counts : \A c \in counts : c <= b

RECURSIVE Power(_, _)
Power(b, d) == IF d = 0 THEN 1 ELSE b * Power(b, d - 1)

\* 1 + b + ... + b^maxDepth
RECURSIVE GeometricSum(_, _)
GeometricSum(b, maxDepth) ==
  Power(b, maxDepth) + (IF maxDepth = 0 THEN 0 ELSE GeometricSum(b, maxDepth - 1))

\* some index of the web is reached again from itself
CyclicWeb(web) ==
  \/ Sm1 \in Range(web.s1.locs)
  \/ Sm2 \in Range(web.s2.locs)
  \/ Sm2 \in Range(web.s1.locs) /\ Sm1 \in Range(web.s2.locs)

\* C40: parseSitemap terminates, also on indexes that reference themselves
\* or each other: a chain of nested fetches has at most maxDepth+1 members,
\* at most b^d fetches are made at depth d, and so at most
\* 1 + b + ... + b^maxDepth in all, b being the largest number of children
\* of an index.
C40_SitemapTerminates ==
  /\ <>(Len(output) = 1)
  /\ [](Len(output) = 1 =>
          LET r == output[1]
              b == Branching(input.web)
          IN  /\ \A k \in 1..Len(r.fetched) : r.fetched[k].depth + 1 <= input.maxDepth + 1
              /\ \A d \in 0..input.maxDepth :
                   Cardinality({k \in 1..Len(r.fetched) : r.fetched[k].depth = d})
                     <= Power(b, d)
              /\ Len(r.fetched) <= GeometricSum(b, input.maxDepth))

\* witness of C40: two indexes reference themselves and each other, and the
\* call has returned after the full tree of 1 + 2 + 4 fetches
C40_Witness ==
  /\ Len(output) = 1
  /\ input.maxDepth = 2
  /\ input.web.s1 = DocIndex(<<Sm1, Sm2>>)
  /\ input.web.s2 = DocIndex(<<Sm2, Sm1>>)
  /\ CyclicWeb(input.web)
  /\ Len(output[1].fetched) = 7
  /\ \E k \in 1..Len(output[1].fetched) :
       output[1].fetched[k] = [url |-> Sm1, depth |-> 2]

\* ------------------------------------------------------------------------
\* crawl(): seed resolution over sitemaps, exclude patterns and seed paths
\* ------------------------------------------------------------------------

\* await parseSitemap(sitemapUrl, {...}).catch(() => null); rejects is the
\* environment making the call itself reject
SitemapResultOf(web, url, rejects) ==
  LET result == parseSitemap(web, getSitemapUrl(url), DefaultSitemapDepth)
  IN  IF rejects \/ result.thrown THEN NullSitemap
      ELSE [ok |-> TRUE, urls |-> result.urls]

\* the sitemaps of the checked sites: /sitemap.xml fails, is empty, lists
\* pages (with query variants, foreign hosts, the www host) or is an index
SeedRootDocs ==
  {DocThrow, DocHttp(404), DocInvalid, DocUrlset(<<>>),
   DocUrlset(<<Site(PathA, QueryS), Site(PathA, QueryT), Site(PathP1, <<>>)>>),
   DocUrlset(<<MkUrl("https", HostOther, "", Slash, <<>>, <<>>)>>),
   DocUrlset(<<MkUrl("https", <<"w", "w", "w", ".">> \o HostLower, "", PathC, <<>>, <<>>),
               Site(Slash, <<>>)>>),
   DocIndex(<<Sm1, Sm2>>)}

SeedWebs ==
  {[root |-> d, s1 |-> DocThrow, s2 |-> DocUrlset(<<Site(PathB, <<>>)>>), s3 |-> DocThrow] :
     d \in SeedRootDocs}

SeedHierarchicalExcludes ==
  {<<>>, <<<<"/", "p", "/", "*">>>>, <<<<"/", "a", "/", "*">>, <<"a", "/", "*">>>>,
   <<<<"/", "*">>>>}

SeedPathLists ==
  {<<>>, <<PathA \o Slash \o QueryS>>, <<PathA, PathA \o Slash>>, <<PathB, <<"/", "p">>>>}

SeedConfigs ==
  {[url |-> MkUrl("https", HostMixed, "", <<>>, <<>>, <<>>),
    maxPages |-> mp, maxDepth |-> 1, concurrency |-> 1,
    useSitemap |-> us, sitemapWeb |-> web, sitemapRejects |-> rj,
    sitemapResult |-> IF us
                      THEN SitemapResultOf(web, MkUrl("https", HostMixed, "", <<>>, <<>>, <<>>), rj)
                      ELSE NullSitemap,
    excludePatterns |-> ex, hierarchicalExclude |-> he, seedPaths |-> sp] :
     mp \in 1..MaxPagesBound, us \in BOOLEAN, web \in SeedWebs, rj \in BOOLEAN,
     ex \in {<<>>, <<PathA>>, <<PathB>>}, he \in SeedHierarchicalExcludes,
     sp \in SeedPathLists}

SeedInit ==
  /\ opts \in SeedConfigs
  /\ seedUrls = <<>>
  /\ seedUrlSet = {}
  /\ reqs = <<>>
  /\ pages = <<>>
  /\ state = EmptyState
  /\ seenPatterns = {}
  /\ assetMap = <<>>
  /\ handled = 0
  /\ phase = "seed"
  /\ faults = 0
  /\ FnIdle

SeedNext == Seed

SpecSeed == SeedInit /\ [][SeedNext]_vars

\* C11: the resolved seed list holds no two URLs with the same normalized
\* form, whatever the sitemap returns and whatever hierarchical-exclude
\* patterns and seed paths are configured.
C11_SeedsDistinct ==
  phase = "ready" =>
    \A i \in 1..Len(seedUrls) : \A j \in 1..Len(seedUrls) :
      i # j => normalizeUrl(seedUrls[i]) # normalizeUrl(seedUrls[j])

\* C12: with the sitemap enabled and its fetch failing (the call rejects, or
\* /sitemap.xml cannot be fetched or parsed), and neither seed paths nor
\* hierarchical excludes configured, the seed list is [the start URL].
C12_SitemapFallback ==
  (/\ phase = "ready"
   /\ opts.useSitemap
   /\ opts.sitemapRejects \/ FailedDoc(opts.sitemapWeb.root)
   /\ opts.seedPaths = <<>>
   /\ opts.hierarchicalExclude = <<>>)
  => seedUrls = <<opts.url>>

\* witness of C12: seeds were resolved after the fetch of /sitemap.xml threw
C12_Witness ==
  /\ phase = "ready"
  /\ opts.useSitemap
  /\ ~opts.sitemapRejects
  /\ opts.sitemapWeb.root = DocThrow
  /\ opts.seedPaths = <<>>
  /\ opts.hierarchicalExclude = <<>>
  /\ Len(seedUrls) = 1

\* the URL of the k-th configured seed path
SeedPathUrl(k) == ResolveUrl(opts.seedPaths[k], ParseUrl(opts.url))

\* u is the URL of a configured seed path
FromSeedPath(u) == normalizeUrl(u) \in seedUrlSet

\* C22: in the resolved seed list the URL of every seed path is present,
\* the seed-path URLs come before every other URL, and they stand in the
\* order the seed paths were given, also when a seed path's URL was already
\* a seed from the base URL, the sitemap or a synthesized parent.
C22_SeedPathsFirst ==
  phase = "ready" =>
    /\ \A k \in 1..Len(opts.seedPaths) :
         HasNormalized(seedUrls, normalizeUrl(SeedPathUrl(k)))
    /\ \A i \in 1..Len(seedUrls) : \A j \in 1..Len(seedUrls) :
         (i < j /\ FromSeedPath(seedUrls[j])) => FromSeedPath(seedUrls[i])
    /\ \A k \in 1..Len(opts.seedPaths) : \A l \in 1..Len(opts.seedPaths) :
         \A i \in 1..Len(seedUrls) : \A j \in 1..Len(seedUrls) :
           (/\ k < l
            /\ seedUrls[i] = SeedPathUrl(k)
            /\ seedUrls[j] = SeedPathUrl(l)
            /\ normalizeUrl(seedUrls[i]) # normalizeUrl(seedUrls[j])) => i < j

\* the sitemap URLs that survive the domain filter and the exclude filter
UsableSitemapUrls ==
  IF opts.useSitemap /\ opts.sitemapResult.ok
  THEN LET same(u) == isSameDomain(u, ParseUrl(opts.url))
       IN  filterUrls(SelectSeq(opts.sitemapResult.urls, same), opts.excludePatterns)
  ELSE <<>>

\* C23: no URL of the resolved seed list matches an exclude pattern,
\* whichever source it has, and every seed taken from the sitemap is on the
\* base domain.
C23_SeedsFiltered ==
  phase = "ready" =>
    /\ \A i \in 1..Len(seedUrls) : ~shouldExcludeUrl(seedUrls[i], opts.excludePatterns)
    /\ \A i \in 1..Len(seedUrls) :
         (/\ opts.useSitemap /\ opts.sitemapResult.ok
          /\ seedUrls[i] \in Range(opts.sitemapResult.urls))
         => isSameDomain(seedUrls[i], ParseUrl(opts.url))

\* C24: the resolved seed list is never empty, and when the sitemap
\* contributes no usable URL (disabled, failed, empty, every URL foreign or
\* every URL excluded) it contains the base URL.
C24_SeedsNeverEmpty ==
  phase = "ready" =>
    /\ seedUrls # <<>>
    /\ UsableSitemapUrls = <<>> => \E i \in 1..Len(seedUrls) : seedUrls[i] = opts.url

\* ------------------------------------------------------------------------
\* buildUrlHierarchy (src/services/crawler.ts)
\* ------------------------------------------------------------------------

\* The tree is the sequence of its nodes in creation order: nodes[1] is the
\* root, parent is the index of the node whose children array holds the node
\* (0 for the root), and the children of a node are in index order.  A node
\* without url has url = NoUrl.
HierarchyNode(parent, segment, path, url) ==
  [parent |-> parent, segment |-> segment, path |-> path, url |-> url]

\* the mutant of FindChild: no child is ever found
FindChild_None(nodes, current, segment) == {}

\* current.children.find((c) => c.segment === segment)
FindChild(nodes, current, segment) ==
  {k \in 1..Len(nodes) : nodes[k].parent = current /\ nodes[k].segment = segment}

\* for (const segment of segments): walk = [nodes, current, currentPath]
RECURSIVE Descend(_, _)
Descend(walk, segments) ==
  IF segments = <<>> THEN walk
  ELSE LET segment     == Head(segments)
           currentPath == walk.currentPath \o segment \o Slash
           found       == FindChild(walk.nodes, walk.current, segment)
       IN  IF found # {}
           THEN Descend([walk EXCEPT !.current = CHOOSE k \in found : \A j \in found : k <= j,
                                     !.currentPath = currentPath],
                        Tail(segments))
           ELSE Descend([nodes |-> Append(walk.nodes,
                                          HierarchyNode(walk.current, segment, currentPath, NoUrl)),
                         current |-> Len(walk.nodes) + 1,
                         currentPath |-> currentPath],
                        Tail(segments))

\* the body of for (const url of filteredUrls): an unparseable url is skipped
RECURSIVE FoldUrls(_, _)
FoldUrls(nodes, urls) ==
  IF urls = <<>> THEN nodes
  ELSE LET url == Head(urls)
       IN  IF ~url.valid THEN FoldUrls(nodes, Tail(urls))
           ELSE LET walk == Descend([nodes |-> nodes, current |-> 1, currentPath |-> Slash],
                                    Segments(ParseUrl(url).path))
                IN  FoldUrls([walk.nodes EXCEPT ![walk.current].url = url], Tail(urls))

\* baseUrl.origin + '/'
OriginUrl(baseUrl) == MkUrl(baseUrl.scheme, baseUrl.host, baseUrl.port, Slash, <<>>, <<>>)

\* the mutant of FilteredUrls: nothing is filtered
FilteredUrls_KeepAll(urls, hierarchicalExclude) == urls

\* urls.filter((url) => !shouldExcludeHierarchically(url, hierarchicalExclude))
FilteredUrls(urls, hierarchicalExclude) ==
  LET kept(url) == ~shouldExcludeHierarchically(url, hierarchicalExclude)
  IN  SelectSeq(urls, kept)

\* buildUrlHierarchy(urls, baseUrl, hierarchicalExclude)
buildUrlHierarchy(urls, baseUrl, hierarchicalExclude) ==
  FoldUrls(<<HierarchyNode(0, <<>>, Slash, OriginUrl(baseUrl))>>,
           FilteredUrls(urls, hierarchicalExclude))

\* lists of up to MaxHierUrls visited URLs are folded
MaxHierUrls == 3

PathAB == <<"/", "a", "/", "b">>

\* visited URLs: the root, a page with a child page, the same path written
\* with a query and with a trailing slash, a sibling, an unparseable string
HierUrlPool ==
  {Site(Slash, <<>>), Site(PathA, <<>>), Site(PathAB, <<>>), Site(PathA, QueryS),
   Site(PathA \o Slash, <<>>), Site(PathB, <<>>),
   BadUrl(<<"n", "o", "t", "-", "a", "-", "u", "r", "l">>)}

HierInputs ==
  [urls : UNION {[1..n -> HierUrlPool] : n \in 0..MaxHierUrls},
   hierarchicalExclude : {<<>>, <<<<"/", "a", "/", "*">>>>}]

HierInit ==
  /\ CrawlIdle
  /\ input \in HierInputs
  /\ output = <<>>

\* const hierarchy = buildUrlHierarchy(urls, baseUrl, opts.hierarchicalExclude)
BuildHierarchy ==
  /\ output = <<>>
  /\ output' = <<buildUrlHierarchy(input.urls, ParseUrl(MkUrl("https", HostMixed, "", <<>>, <<>>, <<>>)),
                                   input.hierarchicalExclude)>>
  /\ UNCHANGED <<input, crawlVars>>

HierNext == BuildHierarchy

SpecHier == HierInit /\ [][HierNext]_vars

\* the node reached from node current along segments (0: there is none)
RECURSIVE NodeAt(_, _, _)
NodeAt(nodes, current, segments) ==
  IF segments = <<>> THEN current
  ELSE LET next == {k \in 1..Len(nodes) :
                      nodes[k].parent = current /\ nodes[k].segment = Head(segments)}
       IN  IF next = {} THEN 0
           ELSE NodeAt(nodes, CHOOSE k \in next : TRUE, Tail(segments))

\* the parseable URLs that buildUrlHierarchy folds, in list order
FoldedUrls ==
  LET parses(url) == url.valid
  IN  SelectSeq(FilteredUrls(input.urls, input.hierarchicalExclude), parses)

UrlSegments(url) == Segments(ParseUrl(url).path)

\* no node has two children of one segment
UniqueChildren(nodes) ==
  \A i \in 1..Len(nodes) : \A j \in 1..Len(nodes) :
    (i # j /\ nodes[i].parent = nodes[j].parent) => nodes[i].segment # nodes[j].segment

\* C13 as stated: each parent has at most one child per segment, and for
\* every folded URL its path segments lead from the root to a node that
\* carries that URL.
C13_EveryUrlOnItsNode ==
  Len(output) = 1 =>
    /\ UniqueChildren(output[1])
    /\ \A k \in 1..Len(FoldedUrls) :
         LET n == NodeAt(output[1], 1, UrlSegments(FoldedUrls[k]))
         IN  n # 0 /\ output[1][n].url = FoldedUrls[k]

\* C13, amended: each parent has at most one child per segment, and for
\* every folded URL its path segments lead from the root to a node that
\* carries the last URL of the list with those path segments (that URL
\* itself when no later URL has the same path), children or not.
C13_LastUrlOnItsNode ==
  Len(output) = 1 =>
    /\ UniqueChildren(output[1])
    /\ \A k \in 1..Len(FoldedUrls) :
         LET n    == NodeAt(output[1], 1, UrlSegments(FoldedUrls[k]))
             same == {j \in 1..Len(FoldedUrls) :
                        UrlSegments(FoldedUrls[j]) = UrlSegments(FoldedUrls[k])}
             last == CHOOSE j \in same : \A i \in same : i <= j
         IN  n # 0 /\ output[1][n].url = FoldedUrls[last]

\* witness of C13: for [/, /a, /a/b] the root has the one child a, which
\* carries the URL of /a and has the one child b
C13_Witness ==
  /\ Len(output) = 1
  /\ input.urls = <<Site(Slash, <<>>), Site(PathA, <<>>), Site(PathAB, <<>>)>>
  /\ input.hierarchicalExclude = <<>>
  /\ Len(output[1]) = 3
  /\ output[1][2] = HierarchyNode(1, <<"a">>, <<"/", "a", "/">>, Site(PathA, <<>>))
  /\ output[1][3] = HierarchyNode(2, <<"b">>, <<"/", "a", "/", "b", "/">>, Site(PathAB, <<>>))

\* C33: a node of the built tree, the root included, carries a url only if
\* the path of some folded page URL ends exactly at that node; a node that
\* was created on the way to a deeper page carries none.
C33_UrlOnlyWhereAPageEnds ==
  Len(output) = 1 =>
    \A n \in 1..Len(output[1]) :
      output[1][n].url # NoUrl =>
        \E k \in 1..Len(FoldedUrls) : NodeAt(output[1], 1, UrlSegments(FoldedUrls[k])) = n

\* the same for the nodes below the root
UrlOnlyWhereAPageEndsBelowRoot ==
  Len(output) = 1 =>
    \A n \in 2..Len(output[1]) :
      output[1][n].url # NoUrl =>
        \E k \in 1..Len(FoldedUrls) : NodeAt(output[1], 1, UrlSegments(FoldedUrls[k])) = n

\* ------------------------------------------------------------------------
\* The hierarchy of a crawl
\* ------------------------------------------------------------------------

PageUrls == [k \in 1..Len(pages) |-> pages[k].url]

\* const hierarchy = buildUrlHierarchy(pages.map((p) => p.url), baseUrl,
\*                                     opts.hierarchicalExclude)
crawlHierarchy ==
  buildUrlHierarchy(PageUrls, ParseUrl(opts.url), opts.hierarchicalExclude)

HierExcluded(url) == shouldExcludeHierarchically(url, opts.hierarchicalExclude)

\* the page URLs without the entries equal to url
PageUrlsWithout(url) == LET other(u) == u # url IN SelectSeq(PageUrls, other)

\* C32: hierarchical excludes act on the tree only.  A returned handler has
\* left each internal, not exclude-matched link of its page in the queue or
\* in skipped, and its assets in the manifest, whether or not the link or
\* the page is hierarchically excluded; in the tree of the finished crawl a
\* hierarchically excluded page has no node of its own and no url (the
\* tree is the tree built without it), and every other page has a node at
\* its path that carries a url.
C32_HierarchicalExcludeTreeOnly ==
  /\ \A r \in Range(reqs) :
       r.status = "handled" =>
         /\ r.depth < opts.maxDepth =>
              \A l \in Range(SiteLinks(r.loadedUrl)) :
                (l.isInternal /\ ~isExcluded(l.url, opts.excludePatterns)) =>
                  \/ \E q \in Range(reqs) : q.uniqueKey = UniqueKey(normalizeUrl(l.url))
                  \/ \E sk \in Range(state.skipped) : sk.url = normalizeUrl(l.url)
         /\ r.loadedUrl \in Range(state.visited)
         /\ \A a \in Range(SiteAssets(r.loadedUrl)) :
              \E m \in Range(assetMap) : m.url = a.url /\ r.loadedUrl \in Range(m.referencedBy)
  /\ phase = "done" =>
       \A pg \in Range(pages) :
         IF HierExcluded(pg.url)
         THEN /\ \A n \in Range(crawlHierarchy) : n.url # pg.url
              /\ crawlHierarchy =
                   buildUrlHierarchy(PageUrlsWithout(pg.url), ParseUrl(opts.url),
                                     opts.hierarchicalExclude)
         ELSE LET n == NodeAt(crawlHierarchy, 1, UrlSegments(pg.url))
              IN  n # 0 /\ crawlHierarchy[n].url # NoUrl

\* witness of C32: the crawl has ended with a hierarchically excluded page
\* that was reached through a link, committed and folded into the manifest,
\* and with another page below the root that has its node
C32_Witness ==
  /\ phase = "done"
  /\ \E pg \in Range(pages) :
       /\ HierExcluded(pg.url)
       /\ pg.depth > 0
       /\ pg.url \in Range(state.visited)
       /\ \E m \in Range(assetMap) : pg.url \in Range(m.referencedBy)
  /\ \E pg \in Range(pages) : ~HierExcluded(pg.url) /\ UrlSegments(pg.url) # <<>>

\* ------------------------------------------------------------------------
\* shouldExcludeHierarchically with one wildcard pattern
\* ------------------------------------------------------------------------

\* the parents P of the patterns P/*; <<>> is the root pattern /*
ExclParents == {<<>>, PathA, <<"/", "A">>, PathAB, PathB}

ExclPaths ==
  {<<>>, Slash, PathA, PathA \o Slash, <<"/", "A">>, <<"/", "A", "/">>, PathAB,
   PathAB \o Slash, <<"/", "a", "/", "B", "/", "c">>, <<"/", "a", "b">>,
   <<"/", "a", "b", "/", "c">>, <<"/", "a", "-", "b">>, PathB, <<"/", "b", "/", "a">>}

ExclInputs ==
  [url : {Site(pa, se) : pa \in ExclPaths,
                         se \in {<<>>, <<"?", "q", "=", "/", "a", "/", "b">>}},
   parent : ExclParents]

ExclInit ==
  /\ CrawlIdle
  /\ input \in ExclInputs
  /\ output = <<>>

\* shouldExcludeHierarchically(url, [parent + '/*'])
ExcludeHierarchically ==
  /\ output = <<>>
  /\ output' = <<shouldExcludeHierarchically(input.url, <<input.parent \o <<"/", "*">>>>)>>
  /\ UNCHANGED <<input, crawlVars>>

ExclNext == ExcludeHierarchically

SpecExcl == ExclInit /\ [][ExclNext]_vars

\* the lowercased pathname of the input URL
ExclPathname == ToLower(ParseUrl(input.url).path)

\* the input URL's path lies strictly below the input pattern's parent
ExclDescendant ==
  LET ps == Segments(ToLower(input.parent))
      us == Segments(ExclPathname)
  IN  Len(ps) < Len(us) /\ SubSeq(us, 1, Len(ps)) = ps

\* C15: for the one pattern P/*, a URL whose pathname is P (with or without
\* trailing slash, in any letter case, with any query) is kept, a URL
\* strictly below P is excluded, and any other URL is kept; the root pattern
\* /* excludes every path but the root.
C15_HierarchicalKeepParent ==
  Len(output) = 1 =>
    output[1] = IF input.parent = <<>> THEN ExclPathname # Slash
                ELSE IF ExclPathname \in {ToLower(input.parent), ToLower(input.parent) \o Slash}
                     THEN FALSE
                     ELSE ExclDescendant

\* witness of C15: /a/B/c is excluded by /a/*
C15_Witness ==
  /\ Len(output) = 1
  /\ input.parent = PathA
  /\ input.url.path = <<"/", "a", "/", "B", "/", "c">>
  /\ output[1] = TRUE

\* ------------------------------------------------------------------------
\* shouldExcludeHierarchically with a list of patterns
\* ------------------------------------------------------------------------

\* lists of up to MaxPatterns distinct patterns are given
MaxPatterns == 2

\* nested and disjoint wildcard patterns, the root pattern, an exact pattern
OrderPatternPool ==
  {PathA \o <<"/", "*">>, PathAB \o <<"/", "*">>, PathB \o <<"/", "*">>, <<"/", "*">>, PathA}

OrderPaths == {Slash, PathA, PathAB, PathAB \o <<"/", "c">>, PathB, PathC}

OrderInputs ==
  [url : {Site(pa, <<>>) : pa \in OrderPaths},
   patterns : UNION {{ps \in [1..n -> OrderPatternPool] :
                        \A k \in 1..n, l \in 1..n : ps[k] = ps[l] => k = l} :
                     n \in 0..MaxPatterns}]

OrderInit ==
  /\ CrawlIdle
  /\ input \in OrderInputs
  /\ output = <<>>

\* shouldExcludeHierarchically(url, patterns)
ExcludeWithPatterns ==
  /\ output = <<>>
  /\ output' = <<shouldExcludeHierarchically(input.url, input.patterns)>>
  /\ UNCHANGED <<input, crawlVars>>

OrderNext == ExcludeWithPatterns

SpecOrder == OrderInit /\ [][OrderNext]_vars

\* the orders in which the input's patterns can be listed
PatternOrders ==
  {[k \in 1..Len(input.patterns) |-> input.patterns[f[k]]] :
     f \in Permutations(1..Len(input.patterns))}

\* C39: the result does not depend on the order of the patterns: every
\* permutation of the list, nested patterns such as /a/* with /a/b/*
\* included, gives the same boolean for the same URL.
C39_PatternOrderIrrelevant ==
  Len(output) = 1 =>
    \A ps \in PatternOrders : shouldExcludeHierarchically(input.url, ps) = output[1]

\* the input URL's pathname is the parent of one of the wildcard patterns
IsSomeParent ==
  \E k \in 1..Len(input.patterns) :
    /\ Includes(input.patterns[k], <<"*">>)
    /\ ParentPath(ToLower(input.patterns[k])) = normalizeUrl(input.url).path

\* where the order is irrelevant: the URL is no pattern's parent
PatternOrderIrrelevantOffParents ==
  (Len(output) = 1 /\ ~IsSomeParent) =>
    \A ps \in PatternOrders : shouldExcludeHierarchically(input.url, ps) = output[1]

\* ------------------------------------------------------------------------
\* The URL utilities and buildUrlHierarchy on a string that is not a URL
\* ------------------------------------------------------------------------

\* strings `new URL` rejects: no scheme, a bare path, the empty string
BadUrlTexts ==
  {<<"n", "o", "t", "-", "a", "-", "u", "r", "l">>, <<"/", "a", "/", "1">>, <<>>,
   <<"x", ".", "c", "o", "/", "a", "?", "i", "d", "=", "1">>}

BadUrlPatterns == {<<>>, <<PathA>>, <<<<"*">>>>, <<<<"/", "a", "/", "*">>, <<"/", "*">>>>}

\* the visited URLs before and after the unparseable one
BadUrlNeighbours == {<<>>, <<Site(PathA, <<>>)>>, <<Site(PathAB, <<>>), Site(Slash, <<>>)>>}

BadUrlInputs ==
  [url : {BadUrl(t) : t \in BadUrlTexts}, patterns : BadUrlPatterns,
   before : BadUrlNeighbours, after : BadUrlNeighbours]

BadUrlInit ==
  /\ CrawlIdle
  /\ input \in BadUrlInputs
  /\ output = <<>>

\* the four utilities applied to url, and buildUrlHierarchy over a list that
\* holds url and over the list without it
ApplyToBadUrl ==
  /\ output = <<>>
  /\ LET baseUrl == ParseUrl(MkUrl("https", HostMixed, "", <<>>, <<>>, <<>>))
     IN  output' =
           <<[normalized |-> normalizeUrl(input.url),
              excluded |-> shouldExcludeUrl(input.url, input.patterns),
              excludedHierarchically |-> shouldExcludeHierarchically(input.url, input.patterns),
              analysis |-> isDynamicUrl(input.url),
              hierarchy |-> buildUrlHierarchy(input.before \o <<input.url>> \o input.after,
                                              baseUrl, input.patterns),
              hierarchyWithout |-> buildUrlHierarchy(input.before \o input.after,
                                                     baseUrl, input.patterns)]>>
  /\ UNCHANGED <<input, crawlVars>>

BadUrlNext == ApplyToBadUrl

SpecBadUrl == BadUrlInit /\ [][BadUrlNext]_vars

\* C16: on a string that does not parse as a URL, normalizeUrl returns the
\* string, shouldExcludeUrl and shouldExcludeHierarchically return false,
\* isDynamicUrl returns isDynamic = false without segments, and
\* buildUrlHierarchy builds the tree it builds without the string.
C16_UnparseableIsNoOp ==
  Len(output) = 1 =>
    /\ output[1].normalized = input.url
    /\ output[1].excluded = FALSE
    /\ output[1].excludedHierarchically = FALSE
    /\ output[1].analysis.isDynamic = FALSE
    /\ output[1].analysis.dynamicSegments = <<>>
    /\ output[1].hierarchy = output[1].hierarchyWithout

\* witness of C16: the string /a/1 (which the patterns /a and /a/* would
\* match as a path) went through the utilities, between two visited URLs
C16_Witness ==
  /\ Len(output) = 1
  /\ input.url = BadUrl(<<"/", "a", "/", "1">>)
  /\ input.patterns = <<PathA>>
  /\ input.before # <<>> /\ input.after # <<>>
  /\ Len(output[1].hierarchy) > 1

\* ------------------------------------------------------------------------
\* resolveConfig: defaults, profiles and the two schemas
\* ------------------------------------------------------------------------

\* A configuration object is a record over ConfigKeys; the field of a key is
\* <<v>> when the key is set to v and <<>> when the object has no such key.

\* Infinity: above every finite number
Infinity == 2147483647

ConfigKeys ==
  {"url", "profile", "maxPages", "maxDepth", "concurrency", "includeAssets", "stealth",
   "locale", "geo", "output", "sitemapOnly", "excludePatterns", "hierarchicalExclude"}

\* {}: no key is set
NoConfig == [k \in ConfigKeys |-> <<>>]

\* config/defaults.ts
defaults ==
  [NoConfig EXCEPT !.locale = <<"en-US">>, !.output = <<"./output">>,
                   !.includeAssets = <<TRUE>>, !.stealth = <<FALSE>>,
                   !.sitemapOnly = <<FALSE>>, !.maxPages = <<500>>, !.maxDepth = <<5>>,
                   !.concurrency = <<10>>, !.excludePatterns = <<<<>>>>]

\* config/profiles.ts
profiles ==
  [quick |-> [NoConfig EXCEPT !.maxPages = <<50>>, !.maxDepth = <<2>>,
                              !.concurrency = <<5>>, !.includeAssets = <<FALSE>>],
   standard |-> [NoConfig EXCEPT !.maxPages = <<500>>, !.maxDepth = <<5>>,
                                 !.concurrency = <<10>>, !.includeAssets = <<TRUE>>],
   deep |-> [NoConfig EXCEPT !.maxPages = <<10000>>, !.maxDepth = <<10>>,
                             !.concurrency = <<20>>, !.includeAssets = <<TRUE>>,
                             !.stealth = <<TRUE>>],
   full |-> [NoConfig EXCEPT !.maxPages = <<Infinity>>, !.maxDepth = <<Infinity>>,
                             !.concurrency = <<30>>, !.includeAssets = <<TRUE>>]]

\* urlSchema: a non-empty string that parses as an http or https URL
urlSchema(f) ==
  /\ f # <<>>
  /\ f[1].valid
  /\ f[1].scheme \in {"http", "https"}

\* z.union([z.number().positive(), z.literal(Infinity)])
positiveOrInfinitySchema(f) == f # <<>> /\ f[1] > 0

\* z.number().int().min(1).max(100)
concurrencySchema(f) == f # <<>> /\ f[1] >= 1 /\ f[1] <= 100

\* z.string().min(1)
nonEmptyStringSchema(f) == f # <<>> /\ f[1] # ""

\* schema.optional()
Optional(f, ok) == f = <<>> \/ ok

\* crawlConfigSchema.parse(c) does not throw
crawlConfigSchema(c) ==
  /\ urlSchema(c.url)
  /\ Optional(c.maxPages, positiveOrInfinitySchema(c.maxPages))
  /\ Optional(c.maxDepth, positiveOrInfinitySchema(c.maxDepth))
  /\ Optional(c.concurrency, concurrencySchema(c.concurrency))
  /\ Optional(c.locale, nonEmptyStringSchema(c.locale))
  /\ Optional(c.output, nonEmptyStringSchema(c.output))

\* resolvedConfigSchema.parse(c) does not throw: every key but geo is required
resolvedConfigSchema(c) ==
  /\ urlSchema(c.url)
  /\ positiveOrInfinitySchema(c.maxPages)
  /\ positiveOrInfinitySchema(c.maxDepth)
  /\ concurrencySchema(c.concurrency)
  /\ c.includeAssets # <<>>
  /\ c.stealth # <<>>
  /\ nonEmptyStringSchema(c.locale)
  /\ nonEmptyStringSchema(c.output)
  /\ c.sitemapOnly # <<>>
  /\ c.excludePatterns # <<>>
  /\ c.hierarchicalExclude # <<>>

\* { ...a, ...b }: the keys of b win
Spread(a, b) == [k \in ConfigKeys |-> IF b[k] # <<>> THEN b[k] ELSE a[k]]

ZodError == [threw |-> TRUE, config |-> NoConfig]

\* resolveConfig(c); the resolved schema keeps its own keys and drops profile
resolveConfig(c) ==
  IF ~crawlConfigSchema(c) THEN ZodError
  ELSE LET profileConfig == IF c.profile # <<>> THEN profiles[c.profile[1]] ELSE NoConfig
           resolved == Spread(Spread(defaults, profileConfig), c)
       IN  IF ~resolvedConfigSchema(resolved) THEN ZodError
           ELSE [threw |-> FALSE, config |-> [resolved EXCEPT !.profile = <<>>]]

ConfigUrls ==
  {MkUrl("https", HostLower, "", <<>>, <<>>, <<>>), MkUrl("ftp", HostLower, "", <<>>, <<>>, <<>>),
   BadUrl(<<"n", "o", "t", "-", "a", "-", "u", "r", "l">>)}

ConfigInputs ==
  [url : {<<u>> : u \in ConfigUrls},
   profile : {<<>>, <<"quick">>, <<"standard">>, <<"deep">>, <<"full">>},
   maxPages : {<<>>, <<0>>, <<100>>},
   maxDepth : {<<>>, <<3>>},
   concurrency : {<<>>, <<15>>, <<101>>},
   includeAssets : {<<>>, <<TRUE>>},
   stealth : {<<>>, <<FALSE>>},
   locale : {<<>>, <<"de-DE">>},
   geo : {<<>>},
   output : {<<>>},
   sitemapOnly : {<<>>, <<TRUE>>},
   excludePatterns : {<<>>, <<<<PathA>>>>},
   hierarchicalExclude : {<<>>, <<<<>>>>, <<<<PathA \o <<"/", "*">>>>>>}]

ConfigInit ==
  /\ CrawlIdle
  /\ input \in ConfigInputs
  /\ output = <<>>

ResolveConfig ==
  /\ output = <<>>
  /\ output' = <<resolveConfig(input)>>
  /\ UNCHANGED <<input, crawlVars>>

ConfigNext == ResolveConfig

SpecConfig == ConfigInit /\ [][ConfigNext]_vars

\* the value the merge priority gives key k of the input: the explicit
\* value, else the selected profile's, else the global default
ByPriority(k) ==
  IF input[k] # <<>> THEN input[k]
  ELSE IF input.profile # <<>> /\ profiles[input.profile[1]][k] # <<>>
       THEN profiles[input.profile[1]][k]
       ELSE defaults[k]

\* C21: on an input that passes the input schema resolveConfig does not
\* throw and every field of its result is the explicit value, else the
\* profile's, else the default; an input with only a valid url resolves to
\* maxPages 500, maxDepth 5, concurrency 10, locale en-US, output ./output
\* and no exclude patterns.
C21_ResolveConfig ==
  (Len(output) = 1 /\ crawlConfigSchema(input)) =>
    /\ ~output[1].threw
    /\ \A k \in ConfigKeys \ {"profile", "hierarchicalExclude"} :
         output[1].config[k] = ByPriority(k)
    /\ input = [NoConfig EXCEPT !.url = input.url] =>
         /\ output[1].config.maxPages = <<500>>
         /\ output[1].config.maxDepth = <<5>>
         /\ output[1].config.concurrency = <<10>>
         /\ output[1].config.locale = <<"en-US">>
         /\ output[1].config.output = <<"./output">>
         /\ output[1].config.excludePatterns = <<<<>>>>

\* the merge priority on the inputs that set hierarchicalExclude
ResolveConfigWithHierarchicalExclude ==
  (Len(output) = 1 /\ crawlConfigSchema(input) /\ input.hierarchicalExclude # <<>>) =>
    /\ ~output[1].threw
    /\ \A k \in ConfigKeys \ {"profile"} : output[1].config[k] = ByPriority(k)

\* ------------------------------------------------------------------------
\* extractUrlPattern and isDynamicUrl on segments of every shape
\* ------------------------------------------------------------------------

\* up to MaxPatternSegments path segments
MaxPatternSegments == 2

Hex8 == <<"5", "5", "0", "e", "8", "4", "0", "0">>
Hex4 == <<"e", "2", "9", "B">>
Digits12 == <<"1", "2", "3", "4", "5", "6", "7", "8", "9", "0", "1", "2">>

\* a word, numbers, a 24-digit number, 24 hex digits in both cases, 23 hex
\* digits, a UUID, and a UUID with a wrong separator
PatternSegments ==
  {<<"a">>, <<"1">>, <<"4", "5", "6">>, <<"1", "a">>,
   Digits12 \o Digits12,
   Hex8 \o Hex4 \o Digits12,
   Hex8 \o Hex4 \o SubSeq(Digits12, 1, 11),
   Hex8 \o <<"-">> \o Hex4 \o <<"-">> \o Hex4 \o <<"-">> \o Hex4 \o <<"-">> \o Digits12,
   Hex8 \o <<"-">> \o Hex4 \o <<"_">> \o Hex4 \o <<"-">> \o Hex4 \o <<"-">> \o Digits12}

RECURSIVE PatternPaths(_)
PatternPaths(n) ==
  IF n = 0 THEN {<<>>}
  ELSE PatternPaths(n - 1) \cup
       {p \o Slash \o seg : p \in PatternPaths(n - 1), seg \in PatternSegments}

PatternQueries ==
  {<<>>, <<"?", "i", "d", "=", "1">>, <<"?", "i", "d", "=", "x">>,
   <<"?", "I", "D", "=", "7">>, <<"?", "q", "=", "1">>,
   <<"?", "q", "=", "a", "&", "u", "i", "d", "=", "1", "2">>}

PatternInputs ==
  {Site(pa, se) : pa \in PatternPaths(MaxPatternSegments), se \in PatternQueries}

PatternInit ==
  /\ CrawlIdle
  /\ input \in PatternInputs
  /\ output = <<>>

\* extractUrlPattern(url) and isDynamicUrl(url)
ClassifyUrl ==
  /\ output = <<>>
  /\ output' = <<[pattern |-> extractUrlPattern(input), analysis |-> isDynamicUrl(input)]>>
  /\ UNCHANGED <<input, crawlVars>>

PatternNext == ClassifyUrl

SpecPattern == PatternInit /\ [][PatternNext]_vars

\* the path segments of the input URL
InputSegments == Segments(ParseUrl(input).path)

\* a query parameter of the input has a numeric value and a key that
\* holds the letters id in the given letter case / in any letter case
HasIdParam(anyCase) ==
  \E kv \in Range(SearchParams(ParseUrl(input).search)) :
    /\ numericRegex(kv.value)
    /\ Includes(IF anyCase THEN ToLower(kv.key) ELSE kv.key, <<"i", "d">>)

HasDynamicSegment ==
  \E i \in 1..Len(InputSegments) :
    \/ numericRegex(InputSegments[i])
    \/ uuidRegex(InputSegments[i])
    \/ objectIdRegex(InputSegments[i])

\* the pattern has one segment per path segment, in order, and the pattern
\* of isDynamicUrl is the pattern of extractUrlPattern
PatternKeepsOrder ==
  /\ Len(Segments(output[1].pattern)) = Len(InputSegments)
  /\ output[1].pattern = Slash \o JoinSlash(Segments(output[1].pattern))
  /\ output[1].analysis.isDynamic => output[1].analysis.pattern = output[1].pattern

====
